---- MODULE Spec2Model ----
(***************************************************************************)
(* Model of the pdf_wasm template engine (internal/template): the          *)
(* template-resolution pass (TemplateProcessor), the spacing model, the    *)
(* input boundary (main) and the table rendering it feeds.                 *)
(*                                                                         *)
(* A text is a sequence of one-character strings, so that the regular      *)
(* expressions and the strings.* calls of the source are modelled by what  *)
(* they do to characters.  Positions are 1-based here and 0-based in Go.   *)
(***************************************************************************)
EXTENDS Integers, Sequences, FiniteSets, TLC

VARIABLES
    pc,              \* position in ProcessTemplate: "idle", "loops", "vars", "done"
    templateContent, \* the raw text handed to ProcessTemplate
    variables,       \* tp.variables, the root variable mapping
    result,          \* processLoops' local `result`, then `content`
    processed,       \* the text ProcessTemplate returns
    last,            \* what the latest iteration of processLoops did
    trail,           \* the texts `result` has held in this call, oldest first
    values,          \* the raw array handed to parseSpacing
    spacing,         \* the Spacing it returned
    mpc,             \* position in main and the calls below it
    stdin,           \* the bytes main reads
    input,           \* main's InputData after json.Unmarshal
    route,           \* the entry point main called
    template,        \* the Template handed to GeneratePDF
    pdf,             \* the drawing backend: cursor and the cells drawn
    el,              \* number of elements Build has rendered
    builders,        \* the PDFBuilder of each concurrent call of GeneratePDF
    sessions         \* the drawing-backend sessions gofpdf.New has created

tvars == <<pc, templateContent, variables, result, processed, last, trail>>

svars == <<values, spacing>>

mvars == <<mpc, stdin, input, route, template, pdf, el>>

cvars == <<builders, sessions>>

vars == <<tvars, svars, mvars, cvars>>

(***************************************************************************)
(* Dynamic values (interface{}): one record shape for every Go type the    *)
(* template code switches on.                                              *)
(*   t : "string" "int" "float" "bool" "nil" "map" "seq"                   *)
(*   s : the characters of a string                                        *)
(*   n : an int, a float in hundredths, or 0/1 for a bool                  *)
(*   m : a mapping from keys (texts) to values                             *)
(*   q : the items of a sequence                                           *)
(***************************************************************************)
NoMap == <<>>

VStr(s) == [t |-> "string", s |-> s, n |-> 0, m |-> NoMap, q |-> <<>>]

VInt(n) == [t |-> "int", s |-> <<>>, n |-> n, m |-> NoMap, q |-> <<>>]

VFloat(h) == [t |-> "float", s |-> <<>>, n |-> h, m |-> NoMap, q |-> <<>>]

VBool(b) == [t |-> "bool", s |-> <<>>, n |-> IF b THEN 1 ELSE 0, m |-> NoMap, q |-> <<>>]

VNil == [t |-> "nil", s |-> <<>>, n |-> 0, m |-> NoMap, q |-> <<>>]

VMap(m) == [t |-> "map", s |-> <<>>, n |-> 0, m |-> m, q |-> <<>>]

VSeq(q) == [t |-> "seq", s |-> <<>>, n |-> 0, m |-> NoMap, q |-> q]

(***************************************************************************)
(* Characters and the strings package.                                     *)
(***************************************************************************)
\* \s of Go's regexp and the ASCII part of unicode.IsSpace
IsSpace(c) == c \in {" ", "\t", "\n", "\r"}

\* position of the first c in t at or after from, 0 when there is none
IndexFrom(t, c, from) ==
    IF \E j \in from..Len(t) : t[j] = c
    THEN CHOOSE j \in from..Len(t) : t[j] = c /\ \A k \in from..(j - 1) : t[k] # c
    ELSE 0

\* t[from..to], empty when from > to
Slice(t, from, to) == IF from > to THEN <<>> ELSE SubSeq(t, from, to)

\* strings.Trim(t, "{}")
TrimBraces(t) ==
    LET isB(c) == c \in {"{", "}"}
        keep == {i \in 1..Len(t) : ~isB(t[i])}
    IN  IF keep = {} THEN <<>>
        ELSE LET lo == CHOOSE i \in keep : \A k \in keep : i <= k
                 hi == CHOOSE i \in keep : \A k \in keep : k <= i
             IN  SubSeq(t, lo, hi)

\* strings.TrimSpace(t)
TrimSpace(t) ==
    LET keep == {i \in 1..Len(t) : ~IsSpace(t[i])}
    IN  IF keep = {} THEN <<>>
        ELSE LET lo == CHOOSE i \in keep : \A k \in keep : i <= k
                 hi == CHOOSE i \in keep : \A k \in keep : k <= i
             IN  SubSeq(t, lo, hi)

\* strings.HasPrefix(t, c) for a one-character prefix
HasPrefix(t, c) == Len(t) >= 1 /\ t[1] = c

RECURSIVE Split(_, _)
\* strings.Split(t, sep) for a one-character separator
Split(t, sep) ==
    LET j == IndexFrom(t, sep, 1)
    IN  IF j = 0 THEN <<t>>
        ELSE <<Slice(t, 1, j - 1)>> \o Split(Slice(t, j + 1, Len(t)), sep)

RECURSIVE ReplaceChar(_, _, _)
\* strings.ReplaceAll(t, c, by) for a one-character c
ReplaceChar(t, c, by) ==
    IF t = <<>> THEN <<>>
    ELSE (IF t[1] = c THEN by ELSE <<t[1]>>) \o ReplaceChar(Tail(t), c, by)

RECURSIVE JoinComma(_)
\* the texts of parts with a comma between every two
JoinComma(parts) ==
    IF parts = <<>> THEN <<>>
    ELSE IF Len(parts) = 1 THEN parts[1]
    ELSE parts[1] \o <<",">> \o JoinComma(Tail(parts))

RECURSIVE Concat(_)
\* the texts of parts one after the other
Concat(parts) == IF parts = <<>> THEN <<>> ELSE Head(parts) \o Concat(Tail(parts))

Digit(d) == <<"0", "1", "2", "3", "4", "5", "6", "7", "8", "9">>[d + 1]

RECURSIVE NatToText(_)
NatToText(n) == IF n < 10 THEN <<Digit(n)>> ELSE NatToText(n \div 10) \o <<Digit(n % 10)>>

\* fmt.Sprintf("%d", n)
FormatInt(n) == IF n < 0 THEN <<"-">> \o NatToText(-n) ELSE NatToText(n)

\* fmt.Sprintf("%.2f", f) for f = h / 100
FormatFloat2(h) ==
    LET a == IF h < 0 THEN -h ELSE h
    IN  (IF h < 0 THEN <<"-">> ELSE <<>>)
        \o NatToText(a \div 100) \o <<".", Digit((a % 100) \div 10), Digit(a % 10)>>

(***************************************************************************)
(* fmt's %v of a dynamic value (the default branch of valueToString).      *)
(* Map keys are printed in sorted order; Alphabet gives the byte order of  *)
(* the characters the model uses.                                          *)
(***************************************************************************)
Alphabet ==
    <<"\t", "\n", "\r", " ", "\"", "#", "&", ",", "-", ".", "/", "0", "1", "2", "3", "4",
      "5", "6", "7", "8", "9", ":", "<", ">", "H", "I", "J", "K", "O", "V", "[", "\\",
      "]", "_", "a", "b", "c", "d", "e", "f", "g", "h", "i", "j", "k", "l", "m", "n",
      "o", "p", "q", "r", "s", "t", "u", "v", "w", "x", "y", "z", "{", "}">>

Ord(c) == IF \E i \in 1..Len(Alphabet) : Alphabet[i] = c
          THEN CHOOSE i \in 1..Len(Alphabet) : Alphabet[i] = c
          ELSE 0

RECURSIVE TextLess(_, _)
TextLess(a, b) ==
    IF b = <<>> THEN FALSE
    ELSE IF a = <<>> THEN TRUE
    ELSE IF a[1] = b[1] THEN TextLess(Tail(a), Tail(b))
    ELSE Ord(a[1]) < Ord(b[1])

RECURSIVE SortedKeys(_)
SortedKeys(ks) ==
    IF ks = {} THEN <<>>
    ELSE LET k == CHOOSE x \in ks : \A y \in ks \ {x} : TextLess(x, y)
         IN  <<k>> \o SortedKeys(ks \ {k})

\* strconv's shortest form of f = h / 100, as %v prints a float64
FormatFloatV(h) ==
    LET a == IF h < 0 THEN -h ELSE h
        sign == IF h < 0 THEN <<"-">> ELSE <<>>
    IN  IF a % 100 = 0 THEN sign \o NatToText(a \div 100)
        ELSE IF a % 10 = 0 THEN sign \o NatToText(a \div 100) \o <<".", Digit((a % 100) \div 10)>>
        ELSE sign \o NatToText(a \div 100) \o <<".", Digit((a % 100) \div 10), Digit(a % 10)>>

RECURSIVE FormatV(_)
FormatV(v) ==
    CASE v.t = "string" -> v.s
      [] v.t = "int" -> FormatInt(v.n)
      [] v.t = "float" -> FormatFloatV(v.n)
      [] v.t = "bool" -> IF v.n = 1 THEN <<"t", "r", "u", "e">> ELSE <<"f", "a", "l", "s", "e">>
      [] v.t = "nil" -> <<"<", "n", "i", "l", ">">>
      [] v.t = "seq" ->
            LET F[i \in 0..Len(v.q)] ==
                    IF i = 0 THEN <<>>
                    ELSE F[i - 1] \o (IF i > 1 THEN <<" ">> ELSE <<>>) \o FormatV(v.q[i])
            IN  <<"[">> \o F[Len(v.q)] \o <<"]">>
      [] v.t = "map" ->
            LET ks == SortedKeys(DOMAIN v.m)
                F[i \in 0..Len(ks)] ==
                    IF i = 0 THEN <<>>
                    ELSE F[i - 1] \o (IF i > 1 THEN <<" ">> ELSE <<>>)
                         \o ks[i] \o <<":">> \o FormatV(v.m[ks[i]])
            IN  <<"m", "a", "p", "[">> \o F[Len(ks)] \o <<"]">>

\* a faulty variant: the backslash is replaced last, after the others
EscapeJSON_BackslashLast(s) ==
    LET e1 == ReplaceChar(s, "\"", <<"\\", "\"">>)
        e2 == ReplaceChar(e1, "\n", <<"\\", "n">>)
        e3 == ReplaceChar(e2, "\r", <<"\\", "r">>)
        e4 == ReplaceChar(e3, "\t", <<"\\", "t">>)
    IN  ReplaceChar(e4, "\\", <<"\\", "\\">>)

\* the five strings.ReplaceAll calls of valueToString, in the source's order
EscapeJSON(s) ==
    LET e1 == ReplaceChar(s, "\\", <<"\\", "\\">>)
        e2 == ReplaceChar(e1, "\"", <<"\\", "\"">>)
        e3 == ReplaceChar(e2, "\n", <<"\\", "n">>)
        e4 == ReplaceChar(e3, "\r", <<"\\", "r">>)
    IN  ReplaceChar(e4, "\t", <<"\\", "t">>)

\* TemplateProcessor.valueToString
valueToString(v) ==
    CASE v.t = "string" -> EscapeJSON(v.s)
      [] v.t = "int" -> FormatInt(v.n)
      [] v.t = "float" -> FormatFloat2(v.n)
      [] v.t = "bool" -> IF v.n = 1 THEN <<"t", "r", "u", "e">> ELSE <<"f", "a", "l", "s", "e">>
      [] v.t = "nil" -> <<>>
      [] OTHER -> EscapeJSON(FormatV(v))

(***************************************************************************)
(* TemplateProcessor.getNestedValue: strings.Split on "." and one map      *)
(* lookup per part.  A missing part, or a current value that is no         *)
(* mapping, returns the empty string "" (the code's Absent).               *)
(***************************************************************************)
RECURSIVE Walk_KeepCurrent(_, _)
\* a faulty variant: a failed lookup returns the value reached so far
Walk_KeepCurrent(current, parts) ==
    IF parts = <<>> THEN current
    ELSE IF current.t = "map" /\ Head(parts) \in DOMAIN current.m
         THEN Walk_KeepCurrent(current.m[Head(parts)], Tail(parts))
         ELSE current

RECURSIVE Walk(_, _)
Walk(current, parts) ==
    IF parts = <<>> THEN current
    ELSE IF current.t = "map"
         THEN IF Head(parts) \in DOMAIN current.m
              THEN Walk(current.m[Head(parts)], Tail(parts))
              ELSE VStr(<<>>)
         ELSE VStr(<<>>)

getNestedValue(vs, path) == Walk(VMap(vs), Split(path, "."))

\* the least number in S, 0 when S is empty
MinOrZero(S) == IF S = {} THEN 0 ELSE CHOOSE i \in S : \A k \in S : i <= k

(***************************************************************************)
(* The regular expressions, each anchored at position i of t.  "{{" must   *)
(* stand at i; no class of the three patterns admits "}", so the closing   *)
(* "}}" can only stand at the first "}" after the opening braces.          *)
(***************************************************************************)
\* the first "}" after the "{{" at i, when "{{" stands at i and "}}" stands there; else 0
CloseOf(t, i) ==
    IF i + 1 <= Len(t) /\ t[i] = "{" /\ t[i + 1] = "{"
    THEN LET j == IndexFrom(t, "}", i + 2)
         IN  IF j > 0 /\ j + 1 <= Len(t) /\ t[j + 1] = "}" THEN j ELSE 0
    ELSE 0

\* a faulty variant: the pattern with [^}]* for [^}]+, which also matches "{{}}"
VarMatchEnd_EmptyInterior(t, i) ==
    LET j == CloseOf(t, i)
    IN  IF j >= i + 2 THEN j + 1 ELSE 0

\* \{\{\s*([^}]+)\s*\}\} at i: the position of the match's last character, or 0
VarMatchEnd(t, i) ==
    LET j == CloseOf(t, i)
    IN  IF j > i + 2 THEN j + 1 ELSE 0

\* a faulty variant: the body's pattern is the scalar pass's, which admits # and /
LoopVarMatchEnd_AnyMarker(t, i) == VarMatchEnd(t, i)

\* \{\{\s*([^}#/]+)\s*\}\} at i: the position of the match's last character, or 0
LoopVarMatchEnd(t, i) ==
    LET j == CloseOf(t, i)
    IN  IF j > i + 2 /\ \A k \in (i + 2)..(j - 1) : t[k] \notin {"#", "/"}
        THEN j + 1 ELSE 0

\* \{\{\s*#\s*([^}]+)\s*\}\} at i: [e |-> last position of the match (0: no match),
\* nf, nt |-> first and last position of the captured name]
LoopStartAt(t, i) ==
    LET j == CloseOf(t, i)
        none == [e |-> 0, nf |-> 0, nt |-> 0]
    IN  IF j = 0 THEN none
        ELSE LET ns == {k \in (i + 2)..(j - 1) : ~IsSpace(t[k])}
             IN  IF ns = {} THEN none
                 ELSE LET p == CHOOSE k \in ns : \A k2 \in ns : k <= k2
                      IN  IF t[p] # "#" \/ p + 1 > j - 1 THEN none
                          ELSE LET rest == {k \in ns : k > p}
                                   \* \s* is greedy, but gives a character back
                                   \* when the name would otherwise be empty
                                   q == IF rest = {} THEN j - 1
                                        ELSE CHOOSE k \in rest : \A k2 \in rest : k <= k2
                               IN  [e |-> j + 1, nf |-> q, nt |-> j - 1]

\* \{\{\s*/\s*NAME\s*\}\} at i, NAME quoted by regexp.QuoteMeta: last position or 0
LoopEndMatchEnd(t, i, name) ==
    LET j == CloseOf(t, i)
        n == Len(name)
    IN  IF j = 0 THEN 0
        ELSE IF \E p \in (i + 2)..(j - 1) :
                    /\ t[p] = "/"
                    /\ \A k \in (i + 2)..(p - 1) : IsSpace(t[k])
                    /\ \E s \in (p + 1)..(j - n) :
                          /\ SubSeq(t, s, s + n - 1) = name
                          /\ \A k \in (p + 1)..(s - 1) : IsSpace(t[k])
                          /\ \A k \in (s + n)..(j - 1) : IsSpace(t[k])
             THEN j + 1 ELSE 0

\* the leftmost position at or after from where a scalar marker matches, or 0
FindVar(t, from) == MinOrZero({i \in from..Len(t) : VarMatchEnd(t, i) > 0})

FindLoopVar(t, from) == MinOrZero({i \in from..Len(t) : LoopVarMatchEnd(t, i) > 0})

\* loopStartRe.FindStringSubmatchIndex(t): the leftmost loop-start marker, or 0
FindLoopStart(t) == MinOrZero({i \in 1..Len(t) : LoopStartAt(t, i).e > 0})

\* endRe.FindStringIndex(t[from..]): the leftmost end marker at or after from, or 0
FindLoopEnd(t, from, name) ==
    MinOrZero({i \in from..Len(t) : LoopEndMatchEnd(t, i, name) > 0})

(***************************************************************************)
(* ProcessTemplate, step 2: re.ReplaceAllStringFunc over the scalar        *)
(* markers, left to right, each match replaced by the callback's result.   *)
(***************************************************************************)
\* a faulty variant: only the markers that start with # are returned as is
substituteMarker_HashOnly(vs, match) ==
    LET varName == TrimSpace(TrimBraces(match))
    IN  IF HasPrefix(varName, "#") THEN match
        ELSE valueToString(getNestedValue(vs, varName))

\* the callback of ProcessTemplate: markers that start with # or / are returned as is
substituteMarker(vs, match) ==
    LET varName == TrimSpace(TrimBraces(match))
    IN  IF HasPrefix(varName, "#") \/ HasPrefix(varName, "/")
        THEN match
        ELSE valueToString(getNestedValue(vs, varName))

RECURSIVE ReplaceVars(_, _, _)
\* the text from position `from` on, every scalar marker replaced
ReplaceVars(t, vs, from) ==
    LET Match(i, e) ==
            Slice(t, from, i - 1) \o substituteMarker(vs, SubSeq(t, i, e))
            \o ReplaceVars(t, vs, e + 1)
        Found(i) == IF i = 0 THEN Slice(t, from, Len(t)) ELSE Match(i, VarMatchEnd(t, i))
    IN  Found(FindVar(t, from))

(***************************************************************************)
(* processLoop: one loop region.                                           *)
(***************************************************************************)
Key_item == <<"i", "t", "e", "m">>

Key_index == <<"i", "n", "d", "e", "x">>

Key_index1 == <<"i", "n", "d", "e", "x", "1">>

\* b's bindings over a's
Merge(a, b) == [k \in (DOMAIN a) \cup (DOMAIN b) |-> IF k \in DOMAIN b THEN b[k] ELSE a[k]]

\* a faulty variant: index and index1 are set before the item is merged in
tempVars_IndexFirst(vs, item, i) ==
    LET withIndex == Merge(vs, (Key_index :> VInt(i)) @@ (Key_index1 :> VInt(i + 1)))
    IN  IF item.t = "map" THEN Merge(withIndex, item.m)
        ELSE Merge(withIndex, Key_item :> item)

\* the tempVars of iteration i (0-based): a copy of the outer variables, then the
\* item's fields (or the item under "item"), then index and index1
tempVars(vs, item, i) ==
    LET withItem == IF item.t = "map" THEN Merge(vs, item.m)
                    ELSE Merge(vs, Key_item :> item)
    IN  Merge(withItem, (Key_index :> VInt(i)) @@ (Key_index1 :> VInt(i + 1)))

\* the callback of processLoop's ReplaceAllStringFunc
substituteLoopMarker(tvs, varMatch) ==
    valueToString(getNestedValue(tvs, TrimSpace(TrimBraces(varMatch))))

RECURSIVE ReplaceLoopVars(_, _, _)
\* the text from position `from` on, every marker of the loop pattern replaced
ReplaceLoopVars(t, tvs, from) ==
    LET Match(i, e) ==
            Slice(t, from, i - 1) \o substituteLoopMarker(tvs, SubSeq(t, i, e))
            \o ReplaceLoopVars(t, tvs, e + 1)
        Found(i) == IF i = 0 THEN Slice(t, from, Len(t)) ELSE Match(i, LoopVarMatchEnd(t, i))
    IN  Found(FindLoopVar(t, from))

\* processedLoopContent of iteration i (0-based) over item
iterationText(vs, item, i, loopContent) ==
    ReplaceLoopVars(loopContent, tempVars(vs, item, i), 1)

\* a faulty variant: the comma also follows the last iteration
needsComma_Trailing(i, n, loopContent) == i < n /\ TrimSpace(loopContent) # <<>>

\* whether a comma follows iteration i (0-based) of n
needsComma(i, n, loopContent) == i < n - 1 /\ TrimSpace(loopContent) # <<>>

\* a faulty variant: a name that is no sequence leaves the loop body in place
processLoop_KeepsBody(vs, arrayName, loopContent) ==
    IF getNestedValue(vs, arrayName).t = "seq" THEN <<>> ELSE loopContent

\* a faulty variant: one context is kept for all the iterations, each adding to it
processLoop_SharedContext(vs, arrayName, loopContent) ==
    LET arrayValue == getNestedValue(vs, arrayName)
    IN  IF arrayValue.t = "seq"
        THEN LET arr == arrayValue.q
                 Ctx[k \in 0..Len(arr)] ==
                     IF k = 0 THEN vs ELSE tempVars(Ctx[k - 1], arr[k], k - 1)
                 R[k \in 0..Len(arr)] ==
                     IF k = 0 THEN <<>>
                     ELSE R[k - 1] \o ReplaceLoopVars(loopContent, Ctx[k], 1)
                          \o (IF needsComma(k - 1, Len(arr), loopContent) THEN <<",">> ELSE <<>>)
             IN  R[Len(arr)]
        ELSE <<>>

processLoop(vs, arrayName, loopContent) ==
    LET arrayValue == getNestedValue(vs, arrayName)
    IN  IF arrayValue.t = "seq"
        THEN LET arr == arrayValue.q
                 R[k \in 0..Len(arr)] ==
                     IF k = 0 THEN <<>>
                     ELSE R[k - 1] \o iterationText(vs, arr[k], k - 1, loopContent)
                          \o (IF needsComma(k - 1, Len(arr), loopContent) THEN <<",">> ELSE <<>>)
             IN  R[Len(arr)]
        ELSE <<>>

(***************************************************************************)
(* processLoops: one iteration of its for loop.                            *)
(***************************************************************************)
\* what is left of result when the start marker ending at se has no end marker
dropUnmatched(res, st, se) == Slice(res, se + 1, Len(res))

\* result[:startMatch[0]] + processedLoop + result[endMatch[1]:]
spliceLoop(res, st, ee, processedLoop) ==
    Slice(res, 1, st - 1) \o processedLoop \o Slice(res, ee + 1, Len(res))

\* the iteration's outcome on res: kind "break", "drop" or "expand".  The local
\* operators follow the code from the start marker (st, m) over the captured name
\* and the end marker (en, ee) to the text spliced in.
loopsIteration(vs, res) ==
    LET none == [kind |-> "break", before |-> res, st |-> 0, se |-> 0, en |-> 0, ee |-> 0,
                 name |-> <<>>, body |-> <<>>, out |-> <<>>, after |-> res]
        Expanded(st, m, arrayName, en, ee, loopContent, processedLoop) ==
            [none EXCEPT !.kind = "expand", !.st = st, !.se = m.e, !.en = en,
                         !.ee = ee, !.name = arrayName, !.body = loopContent,
                         !.out = processedLoop,
                         !.after = spliceLoop(res, st, ee, processedLoop)]
        Region(st, m, arrayName, en, ee, loopContent) ==
            Expanded(st, m, arrayName, en, ee, loopContent,
                     processLoop(vs, arrayName, loopContent))
        Ended(st, m, arrayName, en) ==
            IF en = 0
            THEN [none EXCEPT !.kind = "drop", !.st = st, !.se = m.e, !.name = arrayName,
                              !.after = dropUnmatched(res, st, m.e)]
            ELSE Region(st, m, arrayName, en, LoopEndMatchEnd(res, en, arrayName),
                        Slice(res, m.e + 1, en - 1))
        Named(st, m, arrayName) == Ended(st, m, arrayName, FindLoopEnd(res, m.e + 1, arrayName))
        Started(st, m) == Named(st, m, SubSeq(res, m.nf, m.nt))
        Found(st) == IF st = 0 THEN none ELSE Started(st, LoopStartAt(res, st))
    IN  Found(FindLoopStart(res))

(***************************************************************************)
(* Inputs of the template machine.  A raw text is the concatenation of at  *)
(* most MaxFrags fragments; a fragment of kind "var" or "loop" carries the *)
(* path chosen for the text.  Each case pairs a root variable mapping with *)
(* the paths looked up in it.                                              *)
(***************************************************************************)
MaxFrags == 3

\* longest text the loop pass may build (guard of LoopsExpand)
MaxText == 400

FragKinds == <<"start", "end", "var", "lit", "blank", "loop", "open", "close">>

Mark(path) == <<"{", "{">> \o path \o <<"}", "}">>

FragText(kind, path) ==
    CASE kind = "start" -> Mark(<<"#", "a">>)
      [] kind = "end" -> Mark(<<"/", "a">>)
      [] kind = "var" -> Mark(path)
      [] kind = "lit" -> <<"t">>
      [] kind = "blank" -> <<" ">>
      [] kind = "loop" -> Mark(<<"#", "a">>) \o Mark(path) \o Mark(<<"/", "a">>)
      [] kind = "open" -> <<"{", "{">>
      [] kind = "close" -> <<"}", "}">>

Skeletons == UNION {[1..n -> 1..Len(FragKinds)] : n \in 0..MaxFrags}

UsesPath(sk) == \E i \in 1..Len(sk) : FragKinds[sk[i]] \in {"var", "loop"}

RECURSIVE TextOf(_, _)
TextOf(sk, path) ==
    IF sk = <<>> THEN <<>>
    ELSE FragText(FragKinds[Head(sk)], path) \o TextOf(Tail(sk), path)

K(c) == <<c>>

\* two mapping items; "o" is a field of the second item only
CtxItems ==
    (K("a") :> VSeq(<<VMap(K("v") :> VStr(<<"x">>)),
                      VMap((K("v") :> VStr(<<"y">>)) @@ (K("o") :> VStr(<<"w">>)))>>))
    @@ (K("v") :> VStr(<<"o">>))
    @@ (K("o") :> VStr(<<"u">>))
    @@ (K("x") :> VMap(K("y") :> VStr(<<"z">>)))

\* items that are no mappings, and outer and item bindings of the reserved keys
CtxScalars ==
    (K("a") :> VSeq(<<VStr(<<"p">>), VInt(7),
                      VMap((Key_index :> VStr(<<"J">>)) @@ (Key_item :> VStr(<<"K">>)))>>))
    @@ (Key_index :> VStr(<<"I">>))
    @@ (Key_index1 :> VStr(<<"I">>))
    @@ (Key_item :> VStr(<<"O">>))

CtxNone == NoMap

CtxEmptySeq == (K("a") :> VSeq(<<>>)) @@ (K("v") :> VStr(<<"o">>))

\* string items that hold loop markers of their own
CtxMarkers ==
    (K("a") :> VSeq(<<VStr(Mark(<<"#", "b">>) \o Mark(Key_item) \o Mark(<<"/", "b">>))>>))
    @@ (K("b") :> VSeq(<<VStr(Mark(<<"#", "a">>) \o Mark(Key_item) \o Mark(<<"/", "a">>))>>))

Cases ==
    << [vs |-> CtxItems,
        paths |-> <<K("v"), K("o"), <<"x", ".", "y">>, <<"x", ".", "q">>, <<"v", ".", "z">>,
                    <<" ", "q", " ">>>>],
       [vs |-> CtxScalars, paths |-> <<Key_item, Key_index, Key_index1>>],
       [vs |-> CtxNone, paths |-> <<K("v")>>],
       [vs |-> CtxEmptySeq, paths |-> <<K("v")>>],
       [vs |-> CtxMarkers, paths |-> <<Key_item>>] >>

NoStep ==
    [kind |-> "none", before |-> <<>>, st |-> 0, se |-> 0, en |-> 0, ee |-> 0,
     name |-> <<>>, body |-> <<>>, out |-> <<>>, after |-> <<>>]

\* the parts of the state a specification does not use
NoSpacing == [done |-> FALSE, out |-> [Top |-> 0, Right |-> 0, Bottom |-> 0, Left |-> 0]]

SpacingIdle == values = <<>> /\ spacing = NoSpacing

NoTemplate == [Elements |-> <<>>]

NoInput == [hasTemplate |-> FALSE, PdfTemplate |-> NoTemplate, hasVars |-> FALSE,
            PdfVars |-> NoMap, Template |-> NoTemplate]

Black == <<0, 0, 0>>

\* a session as gofpdf.New returns it: nothing drawn, no font chosen, the colours
\* black and the library's line width of 0.2
NewPdf ==
    [x |-> 0, y |-> 0, cells |-> <<>>, lines |-> <<>>, images |-> <<>>, placed |-> <<>>,
     font |-> <<>>, textColor |-> Black, fillColor |-> Black, drawColor |-> Black,
     lineWidth |-> 20]

ConcurrentIdle == builders = <<>> /\ sessions = <<>>

MainIdle ==
    /\ mpc = "off"
    /\ stdin = <<>>
    /\ input = NoInput
    /\ route = "none"
    /\ template = NoTemplate
    /\ pdf = NewPdf
    /\ el = 0

TemplateIdle ==
    /\ pc = "idle"
    /\ templateContent = <<>>
    /\ variables = NoMap
    /\ result = <<>>
    /\ processed = <<>>
    /\ last = NoStep
    /\ trail = <<>>

(***************************************************************************)
(* ProcessTemplate as a state machine: processLoops' for loop, one action  *)
(* per way an iteration can go, then the scalar pass.                      *)
(*                                                                         *)
(* An iteration is a function of the variables and of `result` alone, so a *)
(* pass that comes back to a text it has held before goes through the same *)
(* texts for ever.  The model follows the pass up to that point (Repeated) *)
(* and no further.                                                         *)
(***************************************************************************)
Repeated == \E k \in 1..(Len(trail) - 1) : trail[k] = trail[Len(trail)]

Init ==
    \E c \in 1..Len(Cases) :
      \E sk \in Skeletons :
        \E p \in 1..Len(Cases[c].paths) :
            /\ UsesPath(sk) \/ p = 1
            /\ templateContent = TextOf(sk, Cases[c].paths[p])
            /\ variables = Cases[c].vs
            /\ result = templateContent
            /\ pc = "loops"
            /\ processed = <<>>
            /\ last = NoStep
            /\ trail = <<templateContent>>
            /\ SpacingIdle
            /\ ConcurrentIdle
            /\ MainIdle

\* no loop-start marker is left: processLoops returns, content := result
LoopsBreak ==
    /\ pc = "loops"
    /\ \E it \in {loopsIteration(variables, result)} :
           /\ it.kind = "break"
           /\ last' = it
    /\ pc' = "vars"
    /\ UNCHANGED <<templateContent, variables, result, processed, trail, svars, mvars, cvars>>

\* the start marker found has no end marker after it
LoopsDrop ==
    /\ pc = "loops"
    /\ ~Repeated
    /\ \E it \in {loopsIteration(variables, result)} :
           /\ it.kind = "drop"
           /\ last' = it
           /\ result' = it.after
           /\ trail' = Append(trail, it.after)
    /\ UNCHANGED <<pc, templateContent, variables, processed, svars, mvars, cvars>>

\* the loop region found is replaced by processLoop's text
LoopsExpand ==
    /\ pc = "loops"
    /\ ~Repeated
    /\ \E it \in {loopsIteration(variables, result)} :
           /\ it.kind = "expand"
           /\ Len(it.after) <= MaxText
           /\ last' = it
           /\ result' = it.after
           /\ trail' = Append(trail, it.after)
    /\ UNCHANGED <<pc, templateContent, variables, processed, svars, mvars, cvars>>

\* re.ReplaceAllStringFunc over content, and the return
ScalarPass ==
    /\ pc = "vars"
    /\ processed' = ReplaceVars(result, variables, 1)
    /\ pc' = "done"
    /\ UNCHANGED <<templateContent, variables, result, last, trail, svars, mvars, cvars>>

Next == LoopsBreak \/ LoopsDrop \/ LoopsExpand \/ ScalarPass

Spec == Init /\ [][Next]_vars

(***************************************************************************)
(* ProcessTemplate on one loop region whose name is bound to no sequence.  *)
(***************************************************************************)
\* what the name may be bound to; it may also be unbound
NonSequences ==
    <<VStr(<<"s">>), VInt(7), VFloat(250), VBool(TRUE), VNil, VMap(K("v") :> VStr(<<"x">>))>>

\* the texts before, inside and after the region
Pieces == <<<<>>, <<"t">>, <<" ">>, Mark(K("v"))>>

InitLoopTarget ==
    \E n \in 0..Len(NonSequences) :
      \E pre \in 1..Len(Pieces) :
        \E body \in 1..Len(Pieces) :
          \E post \in 1..Len(Pieces) :
            /\ templateContent = Pieces[pre] \o FragText("start", <<>>) \o Pieces[body]
                                 \o FragText("end", <<>>) \o Pieces[post]
            /\ variables = IF n = 0 THEN K("v") :> VStr(<<"o">>)
                           ELSE (K("a") :> NonSequences[n]) @@ (K("v") :> VStr(<<"o">>))
            /\ result = templateContent
            /\ pc = "loops"
            /\ processed = <<>>
            /\ last = NoStep
            /\ trail = <<templateContent>>
            /\ SpacingIdle
            /\ ConcurrentIdle
            /\ MainIdle

NextLoopTarget == LoopsBreak \/ LoopsExpand \/ ScalarPass

SpecLoopTarget == InitLoopTarget /\ [][NextLoopTarget]_vars

(***************************************************************************)
(* ProcessTemplate on texts of at most MaxPieces pieces: markers of every  *)
(* kind, loops, a loop nested in another; against mappings whose items     *)
(* differ in their fields, hold a collection of their own, or hold markers *)
(* in their values.                                                        *)
(***************************************************************************)
MaxPieces == 2

LoopOf(name, body) == Mark(<<"#">> \o name) \o body \o Mark(<<"/">> \o name)

ScopePieces ==
    << <<"t">>,
       Mark(K("v")),
       Mark(K("o")),
       Mark(<<"/", "a">>),
       Mark(<<" ", "/", "b", " ">>),
       Mark(K("#")),
       Mark(<<"#", "a">>),
       Mark(Key_index),
       Mark(Key_item),
       LoopOf(K("a"), Mark(K("o"))),
       LoopOf(K("a"), Mark(Key_item) \o Mark(K("v"))),
       LoopOf(K("a"), LoopOf(K("b"), Mark(K("w")) \o Mark(K("v")))) >>

\* "o" and a collection "b" are fields of the first item only, "v" of the second
ScopeItems ==
    (K("a") :> VSeq(<<VMap((K("o") :> VStr(<<"w">>))
                           @@ (K("b") :> VSeq(<<VMap(K("w") :> VStr(<<"3">>))>>))),
                      VMap(K("v") :> VStr(<<"y">>))>>))
    @@ (K("b") :> VSeq(<<VMap(K("w") :> VStr(<<"1">>)), VMap(K("w") :> VStr(<<"2">>))>>))
    @@ (K("v") :> VStr(<<"o">>))
    @@ (K("o") :> VStr(<<"u">>))

\* the collection "b" is a field of the item and of nothing else
ScopeFields ==
    (K("a") :> VSeq(<<VMap((K("v") :> VStr(<<"x">>))
                           @@ (K("b") :> VSeq(<<VMap(K("w") :> VStr(<<"3">>))>>)))>>))
    @@ (K("v") :> VStr(<<"o">>))

\* values that hold markers
ScopeValues ==
    (K("a") :> VSeq(<<VStr(Mark(K("o"))), VMap(K("v") :> VStr(Mark(<<" ", "o", " ">>)))>>))
    @@ (K("v") :> VStr(Mark(K("o"))))
    @@ (K("o") :> VStr(<<"u">>))

Scopes == <<ScopeItems, ScopeFields, ScopeValues>>

InitScopes ==
    \E c \in 1..Len(Scopes) :
      \E n \in 0..MaxPieces :
        \E ps \in [1..n -> 1..Len(ScopePieces)] :
            /\ templateContent = Concat([i \in 1..n |-> ScopePieces[ps[i]]])
            /\ variables = Scopes[c]
            /\ result = templateContent
            /\ pc = "loops"
            /\ processed = <<>>
            /\ last = NoStep
            /\ trail = <<templateContent>>
            /\ SpacingIdle
            /\ ConcurrentIdle
            /\ MainIdle

SpecScopes == InitScopes /\ [][Next]_vars

\* ProcessTemplate on the text x{{v}}y, v bound to a string of at most MaxString
\* characters: the characters valueToString replaces, and two it does not
MaxString == 3

StringChars == {"\\", "\"", "\n", "\r", "\t", "a", "n"}

Strings == UNION {[1..n -> StringChars] : n \in 0..MaxString}

InitEscape ==
    \E s \in Strings :
        /\ templateContent = <<"x">> \o Mark(<<"v">>) \o <<"y">>
        /\ variables = (<<"v">> :> VStr(s))
        /\ result = templateContent
        /\ pc = "loops"
        /\ processed = <<>>
        /\ last = NoStep
        /\ trail = <<templateContent>>
        /\ SpacingIdle
        /\ ConcurrentIdle
        /\ MainIdle

NextEscape == LoopsBreak \/ ScalarPass

SpecEscape == InitEscape /\ [][NextEscape]_vars

(***************************************************************************)
(* The spacing model: parseSpacing, and the specification that calls it on *)
(* every raw array of at most MaxValues entries.                           *)
(***************************************************************************)
MaxValues == 5

\* the float64 entries of a raw array, in hundredths
SpacingInputs == {-500, 0, 500, 1000, 1500}

Spacing(top, right, bottom, left) ==
    [Top |-> top, Right |-> right, Bottom |-> bottom, Left |-> left]

\* a faulty variant: four or more values are read as three
parseSpacing_LeftFromSecond(v) ==
    IF Len(v) = 0 THEN Spacing(0, 0, 0, 0)
    ELSE IF Len(v) = 1 THEN Spacing(v[1], v[1], v[1], v[1])
    ELSE IF Len(v) = 2 THEN Spacing(v[1], v[2], v[1], v[2])
    ELSE Spacing(v[1], v[2], v[3], v[2])

parseSpacing(v) ==
    IF Len(v) = 0 THEN Spacing(0, 0, 0, 0)
    ELSE IF Len(v) = 1 THEN Spacing(v[1], v[1], v[1], v[1])
    ELSE IF Len(v) = 2 THEN Spacing(v[1], v[2], v[1], v[2])
    ELSE IF Len(v) >= 4 THEN Spacing(v[1], v[2], v[3], v[4])
    ELSE Spacing(v[1], v[2], v[3], v[2])

InitSpacing ==
    \E n \in 0..MaxValues :
      \E v \in [1..n -> SpacingInputs] :
        /\ values = v
        /\ spacing = NoSpacing
        /\ TemplateIdle
        /\ MainIdle
        /\ ConcurrentIdle

ParseSpacing ==
    /\ ~spacing.done
    /\ spacing' = [done |-> TRUE, out |-> parseSpacing(values)]
    /\ UNCHANGED <<values, tvars, mvars, cvars>>

NextSpacing == ParseSpacing

SpecSpacing == InitSpacing /\ [][NextSpacing]_vars

(***************************************************************************)
(* encoding/json, as main and ProcessTemplateContent call it.              *)
(*                                                                         *)
(* Marshal: strings are quoted with Go's escapes (HTML characters          *)
(* included), numbers are written in their shortest form, the keys of a    *)
(* map in sorted order, the fields of a struct in declaration order.       *)
(***************************************************************************)
EncodeChar(c) ==
    CASE c = "\"" -> <<"\\", "\"">>
      [] c = "\\" -> <<"\\", "\\">>
      [] c = "\n" -> <<"\\", "n">>
      [] c = "\r" -> <<"\\", "r">>
      [] c = "\t" -> <<"\\", "t">>
      [] c = "<" -> <<"\\", "u", "0", "0", "3", "c">>
      [] c = ">" -> <<"\\", "u", "0", "0", "3", "e">>
      [] c = "&" -> <<"\\", "u", "0", "0", "2", "6">>
      [] OTHER -> <<c>>

RECURSIVE EncodeChars(_)
\* every character of s encoded, in order (the text is split in halves)
EncodeChars(s) ==
    IF s = <<>> THEN <<>>
    ELSE IF Len(s) = 1 THEN EncodeChar(s[1])
    ELSE EncodeChars(SubSeq(s, 1, Len(s) \div 2))
         \o EncodeChars(SubSeq(s, Len(s) \div 2 + 1, Len(s)))

EncodeString(s) == <<"\"">> \o EncodeChars(s) \o <<"\"">>

\* "name":text
Member(name, text) == EncodeString(name) \o <<":">> \o text

\* {m1,m2,...}
Object(members) == <<"{">> \o JoinComma(members) \o <<"}">>

\* [i1,i2,...]
Array(items) == <<"[">> \o JoinComma(items) \o <<"]">>

RECURSIVE MarshalValue(_)
\* json.Marshal of an interface{} value
MarshalValue(v) ==
    CASE v.t = "string" -> EncodeString(v.s)
      [] v.t = "int" -> FormatInt(v.n)
      [] v.t = "float" -> FormatFloatV(v.n)
      [] v.t = "bool" -> IF v.n = 1 THEN <<"t", "r", "u", "e">> ELSE <<"f", "a", "l", "s", "e">>
      [] v.t = "nil" -> <<"n", "u", "l", "l">>
      [] v.t = "seq" -> Array([i \in 1..Len(v.q) |-> MarshalValue(v.q[i])])
      [] v.t = "map" ->
            LET ks == SortedKeys(DOMAIN v.m)
            IN  Object([i \in 1..Len(ks) |-> Member(ks[i], MarshalValue(v.m[ks[i]]))])

(***************************************************************************)
(* Unmarshal, first into dynamic values: numbers become float64 (here in   *)
(* hundredths: the texts of the model hold at most two decimals and no     *)
(* exponent), objects become maps, arrays become sequences.  A parse       *)
(* result is [ok, v, next]: next is the position after the value.          *)
(***************************************************************************)
Fail == [ok |-> FALSE, v |-> VNil, next |-> 0]

Parsed(v, next) == [ok |-> TRUE, v |-> v, next |-> next]

IsDigit(c) == c \in {"0", "1", "2", "3", "4", "5", "6", "7", "8", "9"}

DigitVal(c) == CHOOSE d \in 0..9 : Digit(d) = c

\* the first position at or after i that holds no white space
SkipSpace(t, i) ==
    CHOOSE j \in i..(Len(t) + 1) :
        /\ j > Len(t) \/ ~IsSpace(t[j])
        /\ \A k \in i..(j - 1) : IsSpace(t[k])

\* the first position at or after i that holds no digit
DigitsEnd(t, i) ==
    CHOOSE j \in i..(Len(t) + 1) :
        /\ j > Len(t) \/ ~IsDigit(t[j])
        /\ \A k \in i..(j - 1) : IsDigit(t[k])

RECURSIVE NatOf(_, _, _)
\* the number written by the digits t[from..to]
NatOf(t, from, to) ==
    IF from > to THEN 0 ELSE NatOf(t, from, to - 1) * 10 + DigitVal(t[to])

\* word stands at position i of t
MatchAt(t, i, word) ==
    i + Len(word) - 1 <= Len(t) /\ SubSeq(t, i, i + Len(word) - 1) = word

\* the character an escape \c stands for, <<>> when \c is no escape of the model
Unescape(c) ==
    CASE c = "\"" -> <<"\"">>
      [] c = "\\" -> <<"\\">>
      [] c = "/" -> <<"/">>
      [] c = "n" -> <<"\n">>
      [] c = "r" -> <<"\r">>
      [] c = "t" -> <<"\t">>
      [] OTHER -> <<>>

\* the character \uXXXX stands for, among those Marshal writes that way
UnescapeU(hex) ==
    CASE hex = <<"0", "0", "3", "c">> -> <<"<">>
      [] hex = <<"0", "0", "3", "e">> -> <<">">>
      [] hex = <<"0", "0", "2", "6">> -> <<"&">>
      [] OTHER -> <<>>

\* position j of t follows an odd number of backslashes, counted back to position i
EscapedAt(t, i, j) ==
    LET s == CHOOSE s \in (i - 1)..(j - 1) :
                 /\ s = i - 1 \/ t[s] # "\\"
                 /\ \A k \in (s + 1)..(j - 1) : t[k] = "\\"
    IN  (j - 1 - s) % 2 = 1

\* what position k of a string that starts at i decodes to: a character, "" for
\* a position that is part of an escape, "bad" for what is no JSON
DecodeAt(t, i, k) ==
    IF EscapedAt(t, i, k)
    THEN IF t[k] = "u"
         THEN IF k + 4 <= Len(t) /\ UnescapeU(SubSeq(t, k + 1, k + 4)) # <<>>
              THEN UnescapeU(SubSeq(t, k + 1, k + 4))[1]
              ELSE "bad"
         ELSE IF Unescape(t[k]) # <<>> THEN Unescape(t[k])[1] ELSE "bad"
    ELSE IF t[k] = "\\" THEN ""
    ELSE IF \E u \in i..(k - 1) : u >= k - 4 /\ t[u] = "u" /\ EscapedAt(t, i, u) THEN ""
    ELSE IF t[k] \in {"\n", "\r", "\t"} THEN "bad"
    ELSE t[k]

\* a string whose opening quote stands before position i
ScanString(t, i) ==
    LET closing == {j \in i..Len(t) : t[j] = "\"" /\ ~EscapedAt(t, i, j)}
    IN  IF closing = {} THEN Fail
        ELSE LET e == CHOOSE j \in closing : \A k \in closing : j <= k
                 decoded == [k \in 1..(e - i) |-> DecodeAt(t, i, i + k - 1)]
             IN  IF \E k \in 1..(e - i) : decoded[k] = "bad" THEN Fail
                 ELSE Parsed(VStr(SelectSeq(decoded, LAMBDA c : c # "")), e + 1)

\* a number that starts at position i
ParseNumber(t, i) ==
    LET neg == t[i] = "-"
        s == IF neg THEN i + 1 ELSE i
        e == DigitsEnd(t, s)
    IN  IF e = s THEN Fail
        ELSE IF e - s > 1 /\ t[s] = "0" THEN Fail
        ELSE LET hasFrac == e <= Len(t) /\ t[e] = "."
                 fe == IF hasFrac THEN DigitsEnd(t, e + 1) ELSE e
             IN  IF hasFrac /\ fe = e + 1 THEN Fail
                 ELSE LET d1 == IF fe > e + 1 THEN DigitVal(t[e + 1]) ELSE 0
                          d2 == IF fe > e + 2 THEN DigitVal(t[e + 2]) ELSE 0
                          h == NatOf(t, s, e - 1) * 100 + d1 * 10 + d2
                      IN  Parsed(VFloat(IF neg THEN 0 - h ELSE h), fe)

RECURSIVE ParseValue(_, _)
RECURSIVE ParseItems(_, _, _)
RECURSIVE ParseMembers(_, _, _)

\* the items of an array after its "[" or after a ",": acc is the items so far
ParseItems(t, i, acc) ==
    LET After(r, k) ==
            IF k > Len(t) THEN Fail
            ELSE IF t[k] = "," THEN ParseItems(t, k + 1, Append(acc, r.v))
            ELSE IF t[k] = "]" THEN Parsed(VSeq(Append(acc, r.v)), k + 1)
            ELSE Fail
        Item(r) == IF ~r.ok THEN Fail ELSE After(r, SkipSpace(t, r.next))
    IN  Item(ParseValue(t, i))

\* the members of an object after its "{" or after a ",": acc is the map so far
ParseMembers(t, i, acc) ==
    LET After(m, k) ==
            IF k > Len(t) THEN Fail
            ELSE IF t[k] = "," THEN ParseMembers(t, k + 1, m)
            ELSE IF t[k] = "}" THEN Parsed(VMap(m), k + 1)
            ELSE Fail
        Value(key, r) ==
            IF ~r.ok THEN Fail
            ELSE After(Merge(acc, key.v.s :> r.v), SkipSpace(t, r.next))
        Colon(key, c) ==
            IF c > Len(t) \/ t[c] # ":" THEN Fail ELSE Value(key, ParseValue(t, c + 1))
        Key(key) == IF ~key.ok THEN Fail ELSE Colon(key, SkipSpace(t, key.next))
        Quote(j) == IF j > Len(t) \/ t[j] # "\"" THEN Fail ELSE Key(ScanString(t, j + 1))
    IN  Quote(SkipSpace(t, i))

\* the value that starts at the first position at or after i that is no white space
ParseValue(t, i) ==
    LET Closed(k, close, empty, rest) ==
            IF k <= Len(t) /\ t[k] = close THEN Parsed(empty, k + 1) ELSE rest
        At(j) ==
            IF j > Len(t) THEN Fail
            ELSE IF t[j] = "{"
                 THEN Closed(SkipSpace(t, j + 1), "}", VMap(NoMap), ParseMembers(t, j + 1, NoMap))
            ELSE IF t[j] = "["
                 THEN Closed(SkipSpace(t, j + 1), "]", VSeq(<<>>), ParseItems(t, j + 1, <<>>))
            ELSE IF t[j] = "\"" THEN ScanString(t, j + 1)
            ELSE IF t[j] = "-" \/ IsDigit(t[j]) THEN ParseNumber(t, j)
            ELSE IF MatchAt(t, j, <<"t", "r", "u", "e">>) THEN Parsed(VBool(TRUE), j + 4)
            ELSE IF MatchAt(t, j, <<"f", "a", "l", "s", "e">>) THEN Parsed(VBool(FALSE), j + 5)
            ELSE IF MatchAt(t, j, <<"n", "u", "l", "l">>) THEN Parsed(VNil, j + 4)
            ELSE Fail
    IN  At(SkipSpace(t, i))

\* json.Unmarshal(t, &v) for v interface{}: one value, then white space only
UnmarshalValue(t) ==
    LET Whole(r) == IF r.ok /\ SkipSpace(t, r.next) > Len(t) THEN r ELSE Fail
    IN  Whole(ParseValue(t, 1))

(***************************************************************************)
(* The structs of the descriptor.  The model keeps the fields that decide  *)
(* what is drawn where: of Template its Elements, of Element its Type,     *)
(* Content, Style, Columns and Rows, of Style its Align, Height, Margin    *)
(* and Padding.  Page and Fonts are left at their zero values by every     *)
(* descriptor of the model, so that NewPDFBuilder takes its defaults.      *)
(* A decoding is [ok, val]: ok is FALSE when a JSON value has not the type *)
(* of its field, which json.Unmarshal reports as an error.                 *)
(***************************************************************************)
NoStyle ==
    [nil |-> TRUE, Font |-> <<>>, Size |-> 0, Bold |-> FALSE, Italic |-> FALSE,
     Color |-> <<>>, BgColor |-> <<>>, Align |-> <<>>, Width |-> 0, Height |-> 0,
     Margin |-> <<>>, Padding |-> <<>>]

\* the value under key, nil when the key is missing (a null leaves a field as it is)
Field(m, key) == IF key \in DOMAIN m THEN m[key] ELSE VNil

AsText(v) == [ok |-> v.t \in {"string", "nil"}, val |-> IF v.t = "string" THEN v.s ELSE <<>>]

AsNumber(v) == [ok |-> v.t \in {"float", "nil"}, val |-> IF v.t = "float" THEN v.n ELSE 0]

\* the decodings ds of the items of an array, as the decoding of the array
Each(ds) == [ok |-> \A i \in DOMAIN ds : ds[i].ok, val |-> [i \in DOMAIN ds |-> ds[i].val]]

AsBool(v) == [ok |-> v.t \in {"bool", "nil"}, val |-> v.t = "bool" /\ v.n = 1]

AsNumbers(v) ==
    IF v.t = "nil" THEN [ok |-> TRUE, val |-> <<>>]
    ELSE IF v.t = "seq" THEN Each([i \in 1..Len(v.q) |-> AsNumber(v.q[i])])
    ELSE [ok |-> FALSE, val |-> <<>>]

DecodeStyle(v) ==
    IF v.t = "nil" THEN [ok |-> TRUE, val |-> NoStyle]
    ELSE IF v.t = "map"
    THEN LET font == AsText(Field(v.m, <<"f", "o", "n", "t">>))
             size == AsNumber(Field(v.m, <<"s", "i", "z", "e">>))
             bold == AsBool(Field(v.m, <<"b", "o", "l", "d">>))
             italic == AsBool(Field(v.m, <<"i", "t", "a", "l", "i", "c">>))
             color == AsText(Field(v.m, <<"c", "o", "l", "o", "r">>))
             bgColor == AsText(Field(v.m, <<"b", "g", "C", "o", "l", "o", "r">>))
             align == AsText(Field(v.m, <<"a", "l", "i", "g", "n">>))
             width == AsNumber(Field(v.m, <<"w", "i", "d", "t", "h">>))
             height == AsNumber(Field(v.m, <<"h", "e", "i", "g", "h", "t">>))
             margin == AsNumbers(Field(v.m, <<"m", "a", "r", "g", "i", "n">>))
             padding == AsNumbers(Field(v.m, <<"p", "a", "d", "d", "i", "n", "g">>))
         IN  [ok |-> /\ font.ok /\ size.ok /\ bold.ok /\ italic.ok /\ color.ok /\ bgColor.ok
                     /\ align.ok /\ width.ok /\ height.ok /\ margin.ok /\ padding.ok,
              val |-> [nil |-> FALSE, Font |-> font.val, Size |-> size.val, Bold |-> bold.val,
                       Italic |-> italic.val, Color |-> color.val, BgColor |-> bgColor.val,
                       Align |-> align.val, Width |-> width.val, Height |-> height.val,
                       Margin |-> margin.val, Padding |-> padding.val]]
    ELSE [ok |-> FALSE, val |-> NoStyle]

NoColumn == [Header |-> <<>>, Width |-> 0, Align |-> <<>>]

DecodeColumn(v) ==
    IF v.t = "nil" THEN [ok |-> TRUE, val |-> NoColumn]
    ELSE IF v.t = "map"
    THEN LET header == AsText(Field(v.m, <<"h", "e", "a", "d", "e", "r">>))
             width == AsNumber(Field(v.m, <<"w", "i", "d", "t", "h">>))
             align == AsText(Field(v.m, <<"a", "l", "i", "g", "n">>))
         IN  [ok |-> header.ok /\ width.ok /\ align.ok,
              val |-> [Header |-> header.val, Width |-> width.val, Align |-> align.val]]
    ELSE [ok |-> FALSE, val |-> NoColumn]

DecodeColumns(v) ==
    IF v.t = "nil" THEN [ok |-> TRUE, val |-> <<>>]
    ELSE IF v.t = "seq" THEN Each([i \in 1..Len(v.q) |-> DecodeColumn(v.q[i])])
    ELSE [ok |-> FALSE, val |-> <<>>]

NoElement ==
    [Type |-> <<>>, Content |-> VNil, Style |-> NoStyle, Columns |-> <<>>, Rows |-> VNil,
     Children |-> <<>>, GridColumns |-> 0, Length |-> 0]

\* a JSON number decoded into an int field: a number with a fraction is an error
AsInt(v) ==
    [ok |-> v.t = "nil" \/ (v.t = "float" /\ v.n % 100 = 0),
     val |-> IF v.t = "float" THEN v.n \div 100 ELSE 0]

RECURSIVE DecodeElements(_)
DecodeElement(v) ==
    IF v.t = "nil" THEN [ok |-> TRUE, val |-> NoElement]
    ELSE IF v.t = "map"
    THEN LET Of(type, style, columns, children, gridColumns, length) ==
                 [ok |-> /\ type.ok /\ style.ok /\ columns.ok /\ children.ok
                         /\ gridColumns.ok /\ length.ok,
                  val |-> [Type |-> type.val,
                           Content |-> Field(v.m, <<"c", "o", "n", "t", "e", "n", "t">>),
                           Style |-> style.val, Columns |-> columns.val,
                           Rows |-> Field(v.m, <<"r", "o", "w", "s">>),
                           Children |-> children.val, GridColumns |-> gridColumns.val,
                           Length |-> length.val]]
         IN  Of(AsText(Field(v.m, <<"t", "y", "p", "e">>)),
                DecodeStyle(Field(v.m, <<"s", "t", "y", "l", "e">>)),
                DecodeColumns(Field(v.m, <<"c", "o", "l", "u", "m", "n", "s">>)),
                DecodeElements(Field(v.m, <<"c", "h", "i", "l", "d", "r", "e", "n">>)),
                AsInt(Field(v.m, <<"g", "r", "i", "d", "C", "o", "l", "u", "m", "n", "s">>)),
                AsNumber(Field(v.m, <<"l", "e", "n", "g", "t", "h">>)))
    ELSE [ok |-> FALSE, val |-> NoElement]

DecodeElements(v) ==
    IF v.t = "nil" THEN [ok |-> TRUE, val |-> <<>>]
    ELSE IF v.t = "seq" THEN Each([i \in 1..Len(v.q) |-> DecodeElement(v.q[i])])
    ELSE [ok |-> FALSE, val |-> <<>>]

\* the fields of a Template among the members of the object m
DecodeTemplateFields(m) ==
    LET Of(elements) == [ok |-> elements.ok, val |-> [Elements |-> elements.val]]
    IN  Of(DecodeElements(Field(m, <<"e", "l", "e", "m", "e", "n", "t", "s">>)))

\* json.Unmarshal(t, &template) of ProcessTemplateContent
UnmarshalTemplate(t) ==
    LET Of(r) ==
            IF ~r.ok THEN [ok |-> FALSE, val |-> NoTemplate]
            ELSE IF r.v.t = "nil" THEN [ok |-> TRUE, val |-> NoTemplate]
            ELSE IF r.v.t = "map" THEN DecodeTemplateFields(r.v.m)
            ELSE [ok |-> FALSE, val |-> NoTemplate]
    IN  Of(UnmarshalValue(t))

\* json.Unmarshal(in, &input) of main: pdf_template and pdfVars, and the fields
\* of the embedded Template at the top level
UnmarshalInput(t) ==
    LET Fields(pt, pv, ptd, top) ==
            [ok |-> ptd.ok /\ top.ok /\ pv.t \in {"map", "nil"},
             val |-> [hasTemplate |-> pt.t = "map", PdfTemplate |-> ptd.val,
                      hasVars |-> pv.t = "map",
                      PdfVars |-> IF pv.t = "map" THEN pv.m ELSE NoMap,
                      Template |-> top.val]]
        Members(m, pt, pv) ==
            Fields(pt, pv,
                   IF pt.t = "map" THEN DecodeTemplateFields(pt.m)
                   ELSE [ok |-> pt.t = "nil", val |-> NoTemplate],
                   DecodeTemplateFields(m))
        Of(r) ==
            IF ~r.ok THEN [ok |-> FALSE, val |-> NoInput]
            ELSE IF r.v.t = "nil" THEN [ok |-> TRUE, val |-> NoInput]
            ELSE IF r.v.t # "map" THEN [ok |-> FALSE, val |-> NoInput]
            ELSE Members(r.v.m,
                         Field(r.v.m, <<"p", "d", "f", "_", "t", "e", "m", "p", "l", "a", "t", "e">>),
                         Field(r.v.m, <<"p", "d", "f", "V", "a", "r", "s">>))
    IN  Of(UnmarshalValue(t))

\* the members of a struct that are written: omitempty drops the others
Kept(members) == SelectSeq(members, LAMBDA m : m # <<>>)

MarshalNumbers(q) == Array([i \in 1..Len(q) |-> FormatFloatV(q[i])])

MarshalStyle(s) ==
    Object(Kept(<<
        IF s.Font # <<>> THEN Member(<<"f", "o", "n", "t">>, EncodeString(s.Font)) ELSE <<>>,
        IF s.Size # 0 THEN Member(<<"s", "i", "z", "e">>, FormatFloatV(s.Size)) ELSE <<>>,
        IF s.Bold THEN Member(<<"b", "o", "l", "d">>, <<"t", "r", "u", "e">>) ELSE <<>>,
        IF s.Italic THEN Member(<<"i", "t", "a", "l", "i", "c">>, <<"t", "r", "u", "e">>) ELSE <<>>,
        IF s.Color # <<>> THEN Member(<<"c", "o", "l", "o", "r">>, EncodeString(s.Color)) ELSE <<>>,
        IF s.BgColor # <<>> THEN Member(<<"b", "g", "C", "o", "l", "o", "r">>, EncodeString(s.BgColor)) ELSE <<>>,
        IF s.Align # <<>> THEN Member(<<"a", "l", "i", "g", "n">>, EncodeString(s.Align)) ELSE <<>>,
        IF s.Width # 0 THEN Member(<<"w", "i", "d", "t", "h">>, FormatFloatV(s.Width)) ELSE <<>>,
        IF s.Height # 0 THEN Member(<<"h", "e", "i", "g", "h", "t">>, FormatFloatV(s.Height)) ELSE <<>>,
        IF s.Margin # <<>> THEN Member(<<"m", "a", "r", "g", "i", "n">>, MarshalNumbers(s.Margin)) ELSE <<>>,
        IF s.Padding # <<>> THEN Member(<<"p", "a", "d", "d", "i", "n", "g">>, MarshalNumbers(s.Padding)) ELSE <<>> >>))

MarshalColumn(c) ==
    Object(Kept(<<
        Member(<<"h", "e", "a", "d", "e", "r">>, EncodeString(c.Header)),
        Member(<<"w", "i", "d", "t", "h">>, FormatFloatV(c.Width)),
        IF c.Align # <<>> THEN Member(<<"a", "l", "i", "g", "n">>, EncodeString(c.Align)) ELSE <<>> >>))

RECURSIVE MarshalElement(_)
MarshalElement(e) ==
    Object(Kept(<<
        Member(<<"t", "y", "p", "e">>, EncodeString(e.Type)),
        IF e.Content.t # "nil" THEN Member(<<"c", "o", "n", "t", "e", "n", "t">>, MarshalValue(e.Content)) ELSE <<>>,
        IF ~e.Style.nil THEN Member(<<"s", "t", "y", "l", "e">>, MarshalStyle(e.Style)) ELSE <<>>,
        IF e.Children # <<>>
        THEN Member(<<"c", "h", "i", "l", "d", "r", "e", "n">>,
                    Array([i \in 1..Len(e.Children) |-> MarshalElement(e.Children[i])]))
        ELSE <<>>,
        IF e.Columns # <<>>
        THEN Member(<<"c", "o", "l", "u", "m", "n", "s">>,
                    Array([i \in 1..Len(e.Columns) |-> MarshalColumn(e.Columns[i])]))
        ELSE <<>>,
        IF e.Rows.t # "nil" THEN Member(<<"r", "o", "w", "s">>, MarshalValue(e.Rows)) ELSE <<>>,
        IF e.GridColumns # 0
        THEN Member(<<"g", "r", "i", "d", "C", "o", "l", "u", "m", "n", "s">>, FormatInt(e.GridColumns))
        ELSE <<>>,
        IF e.Length # 0 THEN Member(<<"l", "e", "n", "g", "t", "h">>, FormatFloatV(e.Length)) ELSE <<>> >>))

\* json.Marshal(input.PdfTemplate): page and fonts hold their zero values; an
\* Elements without entries is the nil slice
MarshalTemplate(tpl) ==
    Object(<<
        Member(<<"p", "a", "g", "e">>, Object(<<Member(<<"f", "o", "r", "m", "a", "t">>, EncodeString(<<>>)),
                                  Member(<<"o", "r", "i", "e", "n", "t", "a", "t", "i", "o", "n">>, EncodeString(<<>>)),
                                  Member(<<"m", "a", "r", "g", "i", "n", "s">>, <<"n", "u", "l", "l">>)>>)),
        Member(<<"f", "o", "n", "t", "s">>, Object(<<Member(<<"d", "e", "f", "a", "u", "l", "t">>, EncodeString(<<>>)),
                                   Member(<<"p", "a", "t", "h", "s">>, <<"n", "u", "l", "l">>)>>)),
        Member(<<"e", "l", "e", "m", "e", "n", "t", "s">>,
               IF tpl.Elements = <<>> THEN <<"n", "u", "l", "l">>
               ELSE Array([i \in 1..Len(tpl.Elements) |-> MarshalElement(tpl.Elements[i])])) >>)

(***************************************************************************)
(* The drawing backend (gofpdf) as PDFBuilder uses it: a cursor and the    *)
(* cells drawn so far, on one A4 portrait page.  Lengths are in hundredths *)
(* of a millimetre.  Fonts, colours, borders and fills change no position  *)
(* and no text, and are left out.                                          *)
(***************************************************************************)
PageWidth == 21000

MarginLeft == 1500

MarginTop == 1200

MarginRight == 1500

HeaderHeight == 800

RowHeight == 800

TextHeight == 800

SpaceHeight == 500

\* renderTextInWidth: the default line height, of which a cell takes one and a half
DefaultSize == 1000

LineThickness == 10

ImageWidth == 5000

ImageGap == 200

WidthTextHeight == 500

\* renderGrid: what a column keeps free at its right, and what follows a row
GridGutter == 200

GridGap == 200

\* renderLine: what follows a line
LineGap == 200

\* pdf.AddPage(): the cursor at the top left of the content area
AddPage == [NewPdf EXCEPT !.x = MarginLeft, !.y = MarginTop]

\* pdf.CellFormat(w, h, txt, border, ln, align, ...): a width of 0 runs to the right margin
CellFormat(p, w, h, txt, ln, align) ==
    LET cw == IF w = 0 THEN PageWidth - MarginRight - p.x ELSE w
        drawn == Append(p.cells, [x |-> p.x, y |-> p.y, w |-> cw, h |-> h,
                                  txt |-> txt, align |-> align])
    IN  IF ln = 1 THEN [p EXCEPT !.x = MarginLeft, !.y = p.y + h, !.cells = drawn]
        ELSE IF ln = 2 THEN [p EXCEPT !.y = p.y + h, !.cells = drawn]
        ELSE [p EXCEPT !.x = p.x + cw, !.cells = drawn]

\* the element of a set of one element.  The(f(q) : q \in {p}) is f(p), with p
\* computed before f is entered: a long chain of backend calls is then evaluated
\* call after call, not as one nested expression
The(S) == CHOOSE v \in S : TRUE

\* pdf.Ln(h)
Ln(p, h) == [p EXCEPT !.x = MarginLeft, !.y = p.y + h]

\* pdf.SetXY(x, y)
SetXY(p, x, y) == [p EXCEPT !.x = x, !.y = y]

\* pdf.SetFont, pdf.SetTextColor, pdf.SetFillColor, pdf.SetDrawColor, pdf.SetLineWidth
SetFont(p, family, style, size) == [p EXCEPT !.font = <<family, style, size>>]

SetTextColor(p, rgb) == [p EXCEPT !.textColor = rgb]

SetFillColor(p, rgb) == [p EXCEPT !.fillColor = rgb]

SetDrawColor(p, rgb) == [p EXCEPT !.drawColor = rgb]

SetLineWidth(p, width) == [p EXCEPT !.lineWidth = width]

\* pdf.Line(x1, y1, x2, y2): a segment in the draw colour and line width of the moment
Line(p, x1, y1, x2, y2) ==
    [p EXCEPT !.lines = Append(@, [x1 |-> x1, y1 |-> y1, x2 |-> x2, y2 |-> y2,
                                   color |-> p.drawColor, width |-> p.lineWidth])]

\* pdf.RegisterImageReader(name, type, bytes) and pdf.ImageOptions(name, x, y, w, h, ...)
RegisterImageReader(p, name, type, data) ==
    [p EXCEPT !.images = Append(@, [name |-> name, type |-> type, data |-> data])]

ImageOptions(p, name, x, y, w, h) ==
    [p EXCEPT !.placed = Append(@, [name |-> name, x |-> x, y |-> y, w |-> w, h |-> h])]

\* pdf.MultiCell(w, h, txt, ...): one cell per line of txt, each below the other,
\* then the cursor back at the left margin (the lines of the model fit the width)
MultiCell(p, w, h, txt, align) ==
    LET s == SelectSeq(txt, LAMBDA c : c # "\r")
        body == IF s # <<>> /\ s[Len(s)] = "\n" THEN SubSeq(s, 1, Len(s) - 1) ELSE s
        lines == Split(body, "\n")
        F[i \in 0..Len(lines)] ==
            IF i = 0 THEN p
            ELSE The({CellFormat(q, w, h, lines[i], 2, align) : q \in {F[i - 1]}})
    IN  [F[Len(lines)] EXCEPT !.x = MarginLeft]

(***************************************************************************)
(* PDFBuilder: margins, content area and the renderers of the element      *)
(* types text, table and space.                                            *)
(***************************************************************************)
\* template.Fonts.Default as NewPDFBuilder completes it
DefaultFont == <<"A", "r", "i", "a", "l">>

HexDigits == <<"0", "1", "2", "3", "4", "5", "6", "7", "8", "9", "a", "b", "c", "d", "e", "f">>

HexCapitals == <<"0", "1", "2", "3", "4", "5", "6", "7", "8", "9", "A", "B", "C", "D", "E", "F">>

IsHex(c) == \E i \in 1..16 : HexDigits[i] = c \/ HexCapitals[i] = c

HexValue(c) == (CHOOSE i \in 1..16 : HexDigits[i] = c \/ HexCapitals[i] = c) - 1

\* the number of hexadecimal digits a verb of width w reads at position i of h
HexRun(h, i, w) ==
    IF i <= Len(h) /\ IsHex(h[i])
    THEN (IF w = 2 /\ i + 1 <= Len(h) /\ IsHex(h[i + 1]) THEN 2 ELSE 1)
    ELSE 0

HexRead(h, i, n) ==
    IF n = 0 THEN 0
    ELSE IF n = 1 THEN HexValue(h[i])
    ELSE 16 * HexValue(h[i]) + HexValue(h[i + 1])

\* fmt.Sscanf of three hexadecimal fields of width w: the fields after one that
\* cannot be read keep their zero
ScanHex(h, w) ==
    LET Third(n1, n2) == HexRead(h, 1 + n1 + n2, IF n2 = 0 THEN 0 ELSE HexRun(h, 1 + n1 + n2, w))
        Rest(n1) ==
            LET Second(n2) == <<HexRead(h, 1, n1), HexRead(h, 1 + n1, n2), Third(n1, n2)>>
            IN  Second(IF n1 = 0 THEN 0 ELSE HexRun(h, 1 + n1, w))
    IN  Rest(HexRun(h, 1, w))

hexToRGB(hex) ==
    IF hex = <<>> THEN Black
    ELSE LET Of(h) ==
                 IF Len(h) = 3
                 THEN LET Times17(rgb) == <<rgb[1] * 17, rgb[2] * 17, rgb[3] * 17>>
                      IN  Times17(ScanHex(h, 1))
                 ELSE ScanHex(h, 2)
         IN  Of(IF hex[1] = "#" THEN Tail(hex) ELSE hex)

applyStyle(p, style) ==
    IF style.nil THEN SetTextColor(SetFont(p, DefaultFont, <<>>, DefaultSize), Black)
    ELSE LET Fill(q) == IF style.BgColor # <<>> THEN SetFillColor(q, hexToRGB(style.BgColor)) ELSE q
         IN  Fill(SetTextColor(
                      SetFont(p, IF style.Font # <<>> THEN style.Font ELSE DefaultFont,
                              (IF style.Bold THEN <<"B">> ELSE <<>>)
                                  \o (IF style.Italic THEN <<"I">> ELSE <<>>),
                              IF style.Size > 0 THEN style.Size ELSE DefaultSize),
                      IF style.Color # <<>> THEN hexToRGB(style.Color) ELSE Black))

\* a faulty variant: a top margin is applied whatever its sign
applyMargin_AnySign(p, style) ==
    IF style.nil \/ Len(style.Margin) = 0 THEN p
    ELSE Ln(p, parseSpacing(style.Margin).Top)

applyMargin(p, style) ==
    IF style.nil \/ Len(style.Margin) = 0 THEN p
    ELSE IF parseSpacing(style.Margin).Top > 0 THEN Ln(p, parseSpacing(style.Margin).Top)
    ELSE p

getContentArea(baseWidth, style) ==
    LET margin == IF ~style.nil /\ Len(style.Margin) > 0 THEN parseSpacing(style.Margin)
                  ELSE Spacing(0, 0, 0, 0)
        padding == IF ~style.nil /\ Len(style.Padding) > 0 THEN parseSpacing(style.Padding)
                   ELSE Spacing(0, 0, 0, 0)
    IN  [width |-> baseWidth - (margin.Left + margin.Right) - (padding.Left + padding.Right),
         paddingLeft |-> margin.Left + padding.Left]

\* a faulty variant: every alignment is read as left
alignOf_AlwaysLeft(align) == "L"

\* "L", "C" or "R" from an align field
alignOf(align) ==
    IF align = <<"c", "e", "n", "t", "e", "r">> THEN "C" ELSE IF align = <<"r", "i", "g", "h", "t">> THEN "R" ELSE "L"

renderText(p, element) ==
    LET content == IF element.Content.t = "string" THEN element.Content.s ELSE <<>>
        align == IF ~element.Style.nil THEN alignOf(element.Style.Align) ELSE "L"
        height == IF ~element.Style.nil /\ element.Style.Height > 0
                  THEN element.Style.Height ELSE TextHeight
        area == getContentArea(PageWidth - MarginLeft - MarginRight, element.Style)
        styled == applyStyle(p, element.Style)
        p1 == IF area.paddingLeft > 0 THEN [styled EXCEPT !.x = p.x + area.paddingLeft]
              ELSE styled
    IN  IF \E k \in 1..Len(content) : content[k] = "\n"
        THEN MultiCell(p1, area.width, height, content, align)
        ELSE CellFormat(p1, area.width, height, content, 1, align)

\* row.Cells of the type switch on element.Rows: the strings under "cells"
\* a faulty variant: the first cell of a row is left out
rowCells_SkipFirst(item) ==
    LET cells == Field(item.m, <<"c", "e", "l", "l", "s">>)
        strs == IF cells.t = "seq" THEN SelectSeq(cells.q, LAMBDA c : c.t = "string") ELSE <<>>
    IN  [i \in 1..(Len(strs) - 1) |-> strs[i + 1].s]

rowCells(item) ==
    LET cells == Field(item.m, <<"c", "e", "l", "l", "s">>)
        strs == IF cells.t = "seq" THEN SelectSeq(cells.q, LAMBDA c : c.t = "string") ELSE <<>>
    IN  [i \in 1..Len(strs) |-> strs[i].s]

\* row.Style of the type switch on element.Rows: the bold, size, color and bgColor
\* of a "style" object, each kept when it has the type of its field
rowStyle(item) ==
    LET Of(style) ==
            IF style.t # "map" THEN NoStyle
            ELSE LET Typed(key, type) ==
                         key \in DOMAIN style.m /\ style.m[key].t = type
                 IN  [NoStyle EXCEPT
                        !.nil = FALSE,
                        !.Bold = Typed(<<"b", "o", "l", "d">>, "bool") /\ style.m[<<"b", "o", "l", "d">>].n = 1,
                        !.Size = IF Typed(<<"s", "i", "z", "e">>, "float") THEN style.m[<<"s", "i", "z", "e">>].n ELSE 0,
                        !.Color = IF Typed(<<"c", "o", "l", "o", "r">>, "string") THEN style.m[<<"c", "o", "l", "o", "r">>].s ELSE <<>>,
                        !.BgColor = IF Typed(<<"b", "g", "C", "o", "l", "o", "r">>, "string") THEN style.m[<<"b", "g", "C", "o", "l", "o", "r">>].s ELSE <<>>]
    IN  Of(Field(item.m, <<"s", "t", "y", "l", "e">>))

\* rows of the type switch on element.Rows, for a []interface{}: one row per map item
tableRows(rows) ==
    LET maps == SelectSeq(rows.q, LAMBDA item : item.t = "map")
    IN  [i \in 1..Len(maps) |-> [Cells |-> rowCells(maps[i]), Style |-> rowStyle(maps[i])]]

\* a faulty variant: the type switch returns for every kind of rows
tableRowsOf_NeverDrawn(rows) == [drawn |-> FALSE, rows |-> <<>>]

\* the type switch on element.Rows: drawn is FALSE where the switch returns
tableRowsOf(rows) ==
    IF rows.t = "seq" THEN [drawn |-> TRUE, rows |-> tableRows(rows)]
    ELSE [drawn |-> FALSE, rows |-> <<>>]

\* a faulty variant: the header band is laid out before the columns are looked at
renderTable_HeaderBand(p, element) == SetXY(p, MarginLeft, p.y + HeaderHeight)

renderTable(p, element) ==
    IF Len(element.Columns) = 0 THEN p
    ELSE
    LET cols == element.Columns
        tableAlign == IF ~element.Style.nil THEN alignOf(element.Style.Align) ELSE "L"
        W[i \in 0..Len(cols)] == IF i = 0 THEN 0 ELSE W[i - 1] + cols[i].Width
        totalWidth == W[Len(cols)]
        availableWidth == PageWidth - MarginLeft - MarginRight
        startX == IF tableAlign = "C" THEN MarginLeft + (availableWidth - totalWidth) \div 2
                  ELSE IF tableAlign = "R" THEN MarginLeft + (availableWidth - totalWidth)
                  ELSE MarginLeft
        p0 == SetXY(p, startX, p.y)
        sw == tableRowsOf(element.Rows)
        rows == sw.rows
        H[i \in 0..Len(cols)] ==
            IF i = 0 THEN (IF ~element.Style.nil THEN applyStyle(p0, element.Style) ELSE p0)
            ELSE The({CellFormat(q, cols[i].Width, HeaderHeight, cols[i].Header, 0,
                                 alignOf(cols[i].Align)) : q \in {H[i - 1]}})
        afterHeader == SetXY(H[Len(cols)], startX, H[Len(cols)].y + HeaderHeight)
        R[r \in 0..Len(rows)] ==
            IF r = 0 THEN afterHeader
            ELSE LET cells == rows[r].Cells
                     n == IF Len(cells) < Len(cols) THEN Len(cells) ELSE Len(cols)
                     C[i \in 0..n] ==
                         IF i = 0
                         THEN The({IF ~rows[r].Style.nil THEN applyStyle(q, rows[r].Style)
                                   ELSE SetTextColor(SetFont(q, DefaultFont, <<>>, DefaultSize),
                                                     Black) : q \in {R[r - 1]}})
                         ELSE The({CellFormat(q, cols[i].Width, RowHeight, cells[i], 0,
                                              alignOf(cols[i].Align)) : q \in {C[i - 1]}})
                 IN  SetXY(C[n], startX, C[n].y + RowHeight)
    IN  IF ~sw.drawn \/ Len(rows) = 0 THEN p0 ELSE R[Len(rows)]

renderSpace(p, element) ==
    Ln(p, IF ~element.Style.nil /\ element.Style.Height > 0
          THEN element.Style.Height ELSE SpaceHeight)

\* a faulty variant: the draw colour stays the one the style has set
renderLine_KeepsColour(p, element) ==
    LET length == IF element.Length > 0 THEN element.Length ELSE 0
        thickness == IF ~element.Style.nil /\ element.Style.Height > 0
                     THEN element.Style.Height ELSE LineThickness
        coloured == IF ~element.Style.nil /\ element.Style.Color # <<>>
                    THEN SetDrawColor(p, hexToRGB(element.Style.Color)) ELSE p
        endX == IF length = 0 THEN PageWidth - MarginRight ELSE p.x + length
    IN  Ln(Line(SetLineWidth(coloured, thickness), p.x, p.y, endX, p.y), LineGap)

\* renderLine: the line drawn is no cell; the cursor goes to the next line
renderLine(p, element) ==
    LET length == IF element.Length > 0 THEN element.Length ELSE 0
        thickness == IF ~element.Style.nil /\ element.Style.Height > 0
                     THEN element.Style.Height ELSE LineThickness
        coloured == IF ~element.Style.nil /\ element.Style.Color # <<>>
                    THEN SetDrawColor(p, hexToRGB(element.Style.Color)) ELSE p
        endX == IF length = 0 THEN PageWidth - MarginRight ELSE p.x + length
    IN  SetDrawColor(Ln(Line(SetLineWidth(coloured, thickness), p.x, p.y, endX, p.y), LineGap),
                     Black)

\* strings.HasPrefix and strings.Contains
HasPrefixText(t, prefix) == Len(t) >= Len(prefix) /\ SubSeq(t, 1, Len(prefix)) = prefix

ContainsText(t, part) ==
    \E i \in 1..(Len(t) - Len(part) + 1) : SubSeq(t, i, i + Len(part) - 1) = part

\* the alphabet of base64.StdEncoding
Base64Alphabet ==
    <<"A", "B", "C", "D", "E", "F", "G", "H", "I", "J", "K", "L", "M", "N", "O", "P",
      "Q", "R", "S", "T", "U", "V", "W", "X", "Y", "Z", "a", "b", "c", "d", "e", "f",
      "g", "h", "i", "j", "k", "l", "m", "n", "o", "p", "q", "r", "s", "t", "u", "v",
      "w", "x", "y", "z", "0", "1", "2", "3", "4", "5", "6", "7", "8", "9", "+", "/">>

IsBase64(c) == \E i \in 1..64 : Base64Alphabet[i] = c

Base64Value(c) == (CHOOSE i \in 1..64 : Base64Alphabet[i] = c) - 1

\* base64.StdEncoding.DecodeString: line breaks are skipped, four characters give
\* three bytes, and the last four may end in one or two "="
DecodeString(s) ==
    LET Decoded(t) ==
            LET quads == Len(t) \div 4
                pad == IF Len(t) >= 1 /\ t[Len(t)] = "="
                       THEN (IF Len(t) >= 2 /\ t[Len(t) - 1] = "=" THEN 2 ELSE 1)
                       ELSE 0
                Bits(q) ==
                    LET V(k) == IF t[4 * (q - 1) + k] = "=" THEN 0
                                ELSE Base64Value(t[4 * (q - 1) + k])
                    IN  V(1) * 262144 + V(2) * 4096 + V(3) * 64 + V(4)
                Bytes(q) ==
                    SubSeq(<<Bits(q) \div 65536, (Bits(q) \div 256) % 256, Bits(q) % 256>>,
                           1, IF q = quads THEN 3 - pad ELSE 3)
            IN  IF /\ Len(t) % 4 = 0
                   /\ \A i \in 1..(Len(t) - pad) : IsBase64(t[i])
                THEN [ok |-> TRUE, val |-> Concat([q \in 1..quads |-> Bytes(q)])]
                ELSE [ok |-> FALSE, val |-> <<>>]
    IN  Decoded(SelectSeq(s, LAMBDA c : c # "\n" /\ c # "\r"))

\* the name renderImage registers an image of n bytes under
imageName(n) == <<"t", "e", "m", "p", "_", "i", "m", "a", "g", "e", "_">> \o NatToText(n)

renderImage(p, element) ==
    IF element.Content.t = "string"
       /\ HasPrefixText(element.Content.s, <<"d", "a", "t", "a", ":", "i", "m", "a", "g", "e", "/">>)
    THEN LET Drawn(parts) ==
                 IF Len(parts) # 2 THEN p
                 ELSE LET Placed(imageData) ==
                              IF ~imageData.ok THEN p
                              ELSE LET width == IF ~element.Style.nil /\ element.Style.Width > 0
                                                THEN element.Style.Width ELSE ImageWidth
                                       height == IF ~element.Style.nil /\ element.Style.Height > 0
                                                 THEN element.Style.Height ELSE 0
                                       name == imageName(Len(imageData.val))
                                       type == IF ContainsText(parts[1], <<"j", "p", "e", "g">>)
                                                  \/ ContainsText(parts[1], <<"j", "p", "g">>)
                                               THEN "JPG" ELSE "PNG"
                                   IN  Ln(ImageOptions(
                                              RegisterImageReader(p, name, type, imageData.val),
                                              name, p.x, p.y, width, height),
                                          (IF height = 0 THEN (width * 3) \div 4 ELSE height)
                                              + ImageGap)
                      IN  Placed(DecodeString(parts[2]))
         IN  Drawn(Split(element.Content.s, ","))
    ELSE p

renderTextInWidth(p, element, maxWidth) ==
    LET content == IF element.Content.t = "string" THEN element.Content.s ELSE <<>>
        align == IF ~element.Style.nil THEN alignOf(element.Style.Align) ELSE "L"
        height == IF ~element.Style.nil /\ element.Style.Height > 0
                  THEN element.Style.Height ELSE WidthTextHeight
    IN  IF \E k \in 1..Len(content) : content[k] = "\n"
        THEN MultiCell(applyStyle(p, element.Style), maxWidth, height, content, align)
        ELSE CellFormat(applyStyle(p, element.Style), maxWidth, (height * 3) \div 2, content,
                        1, align)

RECURSIVE renderElement(_, _)
renderElementInWidth(p, element, maxWidth) ==
    IF element.Type = <<"t", "e", "x", "t">> THEN renderTextInWidth(p, element, maxWidth)
    ELSE renderElement(p, element)

\* the child of column col (from 0) of a row that starts at startY, in its column
gridChild(p, child, col, startY, columnWidth) ==
    The({renderElementInWidth(SetXY(q, MarginLeft + col * columnWidth, startY), child,
                              columnWidth - GridGutter) : q \in {p}})

\* a faulty variant: the height kept is that of the last child measured
gridMeasure_LastChild(p, children, startY, columnWidth) ==
    LET M[c \in 0..Len(children)] ==
            IF c = 0 THEN [pdf |-> p, maxHeight |-> 0]
            ELSE The({[pdf |-> SetXY(prev.pdf, MarginLeft + (c - 1) * columnWidth, startY),
                       maxHeight |-> gridChild(prev.pdf, children[c], c - 1, startY,
                                               columnWidth).y - startY] : prev \in {M[c - 1]}})
    IN  M[Len(children)]

\* the first pass over the children of a row: each is rendered to measure it and
\* the cursor is restored; maxHeight is the greatest height measured
gridMeasure(p, children, startY, columnWidth) ==
    LET Measured(prev, col, r) ==
            [pdf |-> SetXY(r, MarginLeft + col * columnWidth, startY),
             maxHeight |-> IF r.y - startY > prev.maxHeight THEN r.y - startY
                           ELSE prev.maxHeight]
        M[c \in 0..Len(children)] ==
            IF c = 0 THEN [pdf |-> p, maxHeight |-> 0]
            ELSE The({Measured(prev, c - 1,
                               The({gridChild(prev.pdf, children[c], c - 1, startY, columnWidth)}))
                      : prev \in {M[c - 1]}})
    IN  M[Len(children)]

\* a faulty variant: the row is measured and never rendered a second time
gridCommit_MeasuredOnly(measured, children, startY, columnWidth) ==
    SetXY(measured.pdf, MarginLeft, startY + measured.maxHeight + GridGap)

\* the second pass, and the cursor moved below the row
gridCommit(measured, children, startY, columnWidth) ==
    LET D[c \in 0..Len(children)] ==
            IF c = 0 THEN measured.pdf
            ELSE gridChild(D[c - 1], children[c], c - 1, startY, columnWidth)
    IN  SetXY(D[Len(children)], MarginLeft, startY + measured.maxHeight + GridGap)

\* one row of the grid: the children from position i + 1 on, at most GridColumns
gridBatch(p, element, i, columnWidth) ==
    LET Row(children) ==
            The({gridCommit(The({gridMeasure(q, children, q.y, columnWidth)}), children, q.y,
                            columnWidth) : q \in {p}})
    IN  Row(SubSeq(element.Children, i + 1,
                   IF i + element.GridColumns < Len(element.Children)
                   THEN i + element.GridColumns ELSE Len(element.Children)))

renderGrid(p, element) ==
    IF element.GridColumns <= 0 \/ Len(element.Children) = 0 THEN p
    ELSE LET n == element.GridColumns
             batches == (Len(element.Children) + n - 1) \div n
             B[k \in 0..batches] ==
                 IF k = 0 THEN p
                 ELSE gridBatch(B[k - 1], element, (k - 1) * n,
                                (PageWidth - MarginLeft - MarginRight) \div n)
         IN  B[batches]

\* a faulty variant: a type the switch does not name is rendered as a text
renderByType_TextByDefault(p, element) ==
    CASE element.Type = <<"t", "a", "b", "l", "e">> -> renderTable(p, element)
      [] element.Type = <<"g", "r", "i", "d">> -> renderGrid(p, element)
      [] element.Type = <<"s", "p", "a", "c", "e">> -> renderSpace(p, element)
      [] element.Type = <<"l", "i", "n", "e">> -> renderLine(p, element)
      [] element.Type = <<"i", "m", "a", "g", "e">> -> renderImage(p, element)
      [] OTHER -> renderText(p, element)

\* the switch of renderElement on element.Type
renderByType(p, element) ==
    CASE element.Type = <<"t", "e", "x", "t">> -> renderText(p, element)
      [] element.Type = <<"t", "a", "b", "l", "e">> -> renderTable(p, element)
      [] element.Type = <<"g", "r", "i", "d">> -> renderGrid(p, element)
      [] element.Type = <<"s", "p", "a", "c", "e">> -> renderSpace(p, element)
      [] element.Type = <<"l", "i", "n", "e">> -> renderLine(p, element)
      [] element.Type = <<"i", "m", "a", "g", "e">> -> renderImage(p, element)
      [] OTHER -> p

\* the bottom margin that ends renderElement
applyBottomMargin(p, style) ==
    IF ~style.nil /\ Len(style.Margin) > 0 /\ parseSpacing(style.Margin).Bottom > 0
    THEN Ln(p, parseSpacing(style.Margin).Bottom)
    ELSE p

renderElement(p, element) ==
    The({applyBottomMargin(renderByType(applyMargin(q, element.Style), element), element.Style)
         : q \in {p}})

(***************************************************************************)
(* main: what stands on stdin, and the steps from reading it to writing    *)
(* the document.                                                           *)
(***************************************************************************)
Str(s) == VStr(s)

TextElement(content) == VMap((<<"t", "y", "p", "e">> :> Str(<<"t", "e", "x", "t">>)) @@ (<<"c", "o", "n", "t", "e", "n", "t">> :> Str(content)))

Column(header, width) == VMap((<<"h", "e", "a", "d", "e", "r">> :> Str(header)) @@ (<<"w", "i", "d", "t", "h">> :> VFloat(width)))

\* {{#items}}{"cells":["{{v}}"]}{{/items}}
LoopRows ==
    Mark(<<"#">> \o <<"i", "t", "e", "m", "s">>)
    \o <<"{", "\"">> \o <<"c", "e", "l", "l", "s">> \o <<"\"", ":", "[", "\"">> \o Mark(<<"v">>) \o <<"\"", "]", "}">>
    \o Mark(<<"/">> \o <<"i", "t", "e", "m", "s">>)

\* three texts, one scalar marker each
DescScalars ==
    <<TextElement(Mark(<<"c", "o", "u", "n", "t">>)), TextElement(Mark(<<"p", "r", "i", "c", "e">>)), TextElement(Mark(<<"o", "k">>))>>

\* a table of one column whose rows are a loop template held in a string
DescLoopRows ==
    <<VMap((<<"t", "y", "p", "e">> :> Str(<<"t", "a", "b", "l", "e">>))
           @@ (<<"c", "o", "l", "u", "m", "n", "s">> :> VSeq(<<Column(<<"H">>, 4000)>>))
           @@ (<<"r", "o", "w", "s">> :> Str(LoopRows)))>>

\* a table of one column whose rows are an array: one row of two cells, one row of none
DescArrayRows ==
    <<VMap((<<"t", "y", "p", "e">> :> Str(<<"t", "a", "b", "l", "e">>))
           @@ (<<"s", "t", "y", "l", "e">> :> VMap(<<"a", "l", "i", "g", "n">> :> Str(<<"c", "e", "n", "t", "e", "r">>)))
           @@ (<<"c", "o", "l", "u", "m", "n", "s">> :> VSeq(<<Column(<<"H">>, 4000)>>))
           @@ (<<"r", "o", "w", "s">> :> VSeq(<<
                  VMap(<<"c", "e", "l", "l", "s">> :> VSeq(<<Str(Mark(<<"n", "a", "m", "e">>)), Str(<<"z">>)>>)),
                  VMap(<<"c", "e", "l", "l", "s">> :> VSeq(<<>>))>>)))>>

\* a text with a loop-start marker that has no end marker
DescUnmatched == <<TextElement(<<"a">> \o Mark(<<"#">> \o <<"i", "t", "e", "m", "s">>) \o <<"b">>)>>

\* a styled text, a space and an element of a type renderElement does not know
DescStyled ==
    <<VMap((<<"t", "y", "p", "e">> :> Str(<<"t", "e", "x", "t">>))
           @@ (<<"c", "o", "n", "t", "e", "n", "t">> :> Str(Mark(<<"n", "a", "m", "e">>)))
           @@ (<<"s", "t", "y", "l", "e">> :> VMap((<<"m", "a", "r", "g", "i", "n">> :> VSeq(<<VFloat(500), VFloat(1000), VFloat(1500)>>))
                                 @@ (<<"p", "a", "d", "d", "i", "n", "g">> :> VSeq(<<VFloat(200)>>))
                                 @@ (<<"a", "l", "i", "g", "n">> :> Str(<<"r", "i", "g", "h", "t">>))))),
      VMap(<<"t", "y", "p", "e">> :> Str(<<"s", "p", "a", "c", "e">>)),
      VMap(<<"t", "y", "p", "e">> :> Str(<<"n", "o", "t", "e">>))>>

Descriptors == <<DescScalars, DescLoopRows, DescArrayRows, DescUnmatched, DescStyled>>

VarsFull ==
    (<<"c", "o", "u", "n", "t">> :> VFloat(4200))
    @@ (<<"p", "r", "i", "c", "e">> :> VFloat(950))
    @@ (<<"o", "k">> :> VBool(TRUE))
    @@ (<<"n", "a", "m", "e">> :> Str(<<"n", "\"", "m">>))
    @@ (<<"i", "t", "e", "m", "s">> :> VSeq(<<VMap(<<"v">> :> Str(<<"x">>)), VMap(<<"v">> :> Str(<<"y">>))>>))

VarsOther ==
    (<<"c", "o", "u", "n", "t">> :> VFloat(725))
    @@ (<<"p", "r", "i", "c", "e">> :> VFloat(300))
    @@ (<<"o", "k">> :> VBool(FALSE))
    @@ (<<"i", "t", "e", "m", "s">> :> VSeq(<<>>))

VarSets == <<VarsFull, VarsOther, NoMap>>

EnvelopeKinds == <<"legacy", "legacyVars", "envelope", "envelopeOnly", "nullTemplate", "cut">>

\* the JSON value written on stdin
Envelope(kind, desc, vs) ==
    LET descriptor == <<"e", "l", "e", "m", "e", "n", "t", "s">> :> VSeq(desc)
    IN  CASE kind = "legacy" -> VMap(descriptor)
          [] kind = "legacyVars" -> VMap(descriptor @@ (<<"p", "d", "f", "V", "a", "r", "s">> :> VMap(vs)))
          [] kind = "envelope" ->
                VMap((<<"p", "d", "f", "_", "t", "e", "m", "p", "l", "a", "t", "e">> :> VMap(descriptor)) @@ (<<"p", "d", "f", "V", "a", "r", "s">> :> VMap(vs)))
          [] kind = "envelopeOnly" -> VMap(<<"p", "d", "f", "_", "t", "e", "m", "p", "l", "a", "t", "e">> :> VMap(descriptor))
          [] kind = "nullTemplate" ->
                VMap(descriptor @@ (<<"p", "d", "f", "_", "t", "e", "m", "p", "l", "a", "t", "e">> :> VNil) @@ (<<"p", "d", "f", "V", "a", "r", "s">> :> VMap(vs)))
          [] kind = "cut" -> VMap(<<"p", "d", "f", "_", "t", "e", "m", "p", "l", "a", "t", "e">> :> VMap(descriptor))

\* the bytes on stdin: the envelope's JSON text, cut short for kind "cut"
StdinOf(kind, desc, vs) ==
    LET text == MarshalValue(Envelope(kind, desc, vs))
    IN  IF kind = "cut" THEN SubSeq(text, 1, Len(text) - 1) ELSE text

UsesVars(kind) == kind \in {"legacyVars", "envelope", "nullTemplate"}

\* a faulty variant: the new format is taken only when variables came with the template
usesNewFormat_NeedsVars(in) == in.hasTemplate /\ in.hasVars

\* input.PdfTemplate != nil
usesNewFormat(in) == in.hasTemplate

\* NewTemplateProcessor: a nil variables map becomes an empty one
NewTemplateProcessor(hasVars, vs) == IF hasVars THEN vs ELSE NoMap

InitMain ==
    \E k \in 1..Len(EnvelopeKinds) :
      \E d \in 1..Len(Descriptors) :
        \E v \in 1..Len(VarSets) :
            /\ UsesVars(EnvelopeKinds[k]) \/ v = 1
            /\ stdin = StdinOf(EnvelopeKinds[k], Descriptors[d], VarSets[v])
            /\ mpc = "read"
            /\ input = NoInput
            /\ route = "none"
            /\ template = NoTemplate
            /\ pdf = NewPdf
            /\ el = 0
            /\ TemplateIdle
            /\ SpacingIdle
            /\ ConcurrentIdle

\* io.ReadAll and json.Unmarshal; a decoding error ends main with exit status 1
ReadInput ==
    /\ mpc = "read"
    /\ \E d \in {UnmarshalInput(stdin)} :
           IF d.ok THEN input' = d.val /\ mpc' = "decoded"
           ELSE input' = input /\ mpc' = "exit1"
    /\ UNCHANGED <<stdin, route, template, pdf, el, tvars, svars, cvars>>

\* the new format: json.Marshal of the template, then GeneratePDFFromContent,
\* ProcessTemplateContent, NewTemplateProcessor and the entry of ProcessTemplate
NewFormat ==
    /\ mpc = "decoded"
    /\ usesNewFormat(input)
    /\ route' = "GeneratePDFFromContent"
    /\ templateContent' = MarshalTemplate(input.PdfTemplate)
    /\ variables' = NewTemplateProcessor(input.hasVars, input.PdfVars)
    /\ result' = templateContent'
    /\ processed' = <<>>
    /\ last' = NoStep
    /\ trail' = <<templateContent'>>
    /\ pc' = "loops"
    /\ mpc' = "resolving"
    /\ UNCHANGED <<stdin, input, template, pdf, el, svars, cvars>>

\* the old format: GeneratePDF on the embedded template
LegacyFormat ==
    /\ mpc = "decoded"
    /\ ~usesNewFormat(input)
    /\ route' = "GeneratePDF"
    /\ template' = input.Template
    /\ mpc' = "build"
    /\ UNCHANGED <<stdin, input, pdf, el, tvars, svars, cvars>>

\* ProcessTemplateContent after ProcessTemplate: json.Unmarshal of the resolved
\* text, then GeneratePDF; an error ends main with exit status 1
ParseProcessed ==
    /\ mpc = "resolving"
    /\ pc = "done"
    /\ \E d \in {UnmarshalTemplate(processed)} :
           IF d.ok THEN template' = d.val /\ mpc' = "build"
           ELSE template' = template /\ mpc' = "exit1"
    /\ UNCHANGED <<stdin, input, route, pdf, el, tvars, svars, cvars>>

\* NewPDFBuilder and the head of Build
NewBuilder ==
    /\ mpc = "build"
    /\ pdf' = AddPage
    /\ el' = 0
    /\ mpc' = "render"
    /\ UNCHANGED <<stdin, input, route, template, tvars, svars, cvars>>

\* one turn of Build's loop over the elements
RenderNext ==
    /\ mpc = "render"
    /\ el < Len(template.Elements)
    /\ pdf' = renderElement(pdf, template.Elements[el + 1])
    /\ el' = el + 1
    /\ UNCHANGED <<mpc, stdin, input, route, template, tvars, svars, cvars>>

\* pdf.Output and os.Stdout.Write
WriteOutput ==
    /\ mpc = "render"
    /\ el = Len(template.Elements)
    /\ mpc' = "written"
    /\ UNCHANGED <<stdin, input, route, template, pdf, el, tvars, svars, cvars>>

NextMain ==
    \/ ReadInput
    \/ NewFormat
    \/ LegacyFormat
    \/ LoopsBreak
    \/ LoopsDrop
    \/ LoopsExpand
    \/ ScalarPass
    \/ ParseProcessed
    \/ NewBuilder
    \/ RenderNext
    \/ WriteOutput

SpecMain == InitMain /\ [][NextMain]_vars

(***************************************************************************)
(* GeneratePDF on a Template built in memory: NewPDFBuilder, then Build's  *)
(* loop over the elements.                                                 *)
(***************************************************************************)
MaxElements == 2

StyleOf(align, height, margin, padding) ==
    [NoStyle EXCEPT !.nil = FALSE, !.Align = align, !.Height = height,
                    !.Margin = margin, !.Padding = padding]

TextOfStyle(content, style) ==
    [NoElement EXCEPT !.Type = <<"t", "e", "x", "t">>, !.Content = VStr(content), !.Style = style]

ColumnOf(header, width, align) == [Header |-> header, Width |-> width, Align |-> align]

RowOf(cells) == VMap(<<"c", "e", "l", "l", "s">> :> VSeq([i \in 1..Len(cells) |-> VStr(cells[i])]))

TableOf(style, columns, rows) ==
    [NoElement EXCEPT !.Type = <<"t", "a", "b", "l", "e">>, !.Style = style,
                      !.Columns = columns, !.Rows = rows]

GridOf(style, gridColumns, children) ==
    [NoElement EXCEPT !.Type = <<"g", "r", "i", "d">>, !.Style = style,
                      !.GridColumns = gridColumns, !.Children = children]

LineOf(style, length) ==
    [NoElement EXCEPT !.Type = <<"l", "i", "n", "e">>, !.Style = style, !.Length = length]

ImageOf(style, content) ==
    [NoElement EXCEPT !.Type = <<"i", "m", "a", "g", "e">>, !.Style = style,
                      !.Content = VStr(content)]

\* the heads of two data URLs
PngData == <<"d", "a", "t", "a", ":", "i", "m", "a", "g", "e", "/", "p", "n", "g", ";", "b", "a", "s", "e", "6", "4", ",">>

JpegData == <<"d", "a", "t", "a", ":", "i", "m", "a", "g", "e", "/", "j", "p", "e", "g", ";", "b", "a", "s", "e", "6", "4", ",">>

Center == <<"c", "e", "n", "t", "e", "r">>

Right == <<"r", "i", "g", "h", "t">>

TwoColumns == <<ColumnOf(<<"H">>, 4000, <<>>), ColumnOf(<<"I">>, 3000, Right)>>

\* rows of two cells, of one cell and of three cells
ThreeRows == VSeq(<<RowOf(<<<<"x">>, <<"y">>>>), RowOf(<<<<"z">>>>),
                    RowOf(<<<<"p">>, <<"q">>, <<"r">>>>)>>)

\* the elements the templates are made of
Parts ==
    << TextOfStyle(<<"a">>, NoStyle),
       TextOfStyle(<<"b">>, StyleOf(Right, 600, <<500, 1000, 1500, 2000>>, <<200>>)),
       TextOfStyle(<<"c", "\n", "d">>, StyleOf(<<>>, 0, <<300>>, <<>>)),
       [NoElement EXCEPT !.Type = <<"s", "p", "a", "c", "e">>],
       [NoElement EXCEPT !.Type = <<"l", "i", "n", "e">>,
                         !.Style = StyleOf(<<>>, 0, <<400, 0>>, <<>>)],
       [NoElement EXCEPT !.Type = <<"n", "o", "t", "e">>,
                         !.Style = StyleOf(<<>>, 0, <<500>>, <<>>)],
       TableOf(NoStyle, TwoColumns, ThreeRows),
       TableOf(StyleOf(Center, 0, <<200, 0, 300>>, <<>>), <<ColumnOf(<<"H">>, 4000, Center)>>,
               VSeq(<<RowOf(<<<<"x">>>>)>>)),
       TableOf(StyleOf(Right, 0, <<>>, <<>>), TwoColumns, VSeq(<<>>)),
       TableOf(StyleOf(Right, 0, <<>>, <<>>), TwoColumns, VSeq(<<RowOf(<<>>), RowOf(<<<<"x">>>>)>>)),
       TableOf(NoStyle, <<>>, ThreeRows),
       GridOf(NoStyle, 2,
              << TextOfStyle(<<"e">>, StyleOf(<<>>, 1000, <<>>, <<>>)),
                 TextOfStyle(<<"f">>, NoStyle),
                 [NoElement EXCEPT !.Type = <<"s", "p", "a", "c", "e">>] >>),
       GridOf(StyleOf(<<>>, 0, <<100, 0, 200>>, <<>>), 3,
              << TextOfStyle(<<"m">>, StyleOf(<<>>, 0, <<500>>, <<>>)),
                 TableOf(StyleOf(Center, 0, <<>>, <<>>), <<ColumnOf(<<"H">>, 4000, <<>>)>>,
                         VSeq(<<RowOf(<<<<"x">>>>), RowOf(<<<<"y">>>>)>>)),
                 [NoElement EXCEPT !.Type = <<"s", "p", "a", "c", "e">>,
                                   !.Style = StyleOf(<<>>, 0, <<300, 0, 400>>, <<>>)] >>),
       GridOf(NoStyle, 0, <<TextOfStyle(<<"g">>, NoStyle)>>),
       LineOf([StyleOf(<<>>, 50, <<>>, <<>>) EXCEPT !.Color = <<"#", "f", "f", "0", "0", "0", "0">>], 3000),
       LineOf([StyleOf(<<>>, 0, <<-200>>, <<>>) EXCEPT !.Color = <<"0", "f", "0">>], -500),
       ImageOf(NoStyle, PngData \o <<"A", "A", "A", "A">>),
       ImageOf([StyleOf(<<>>, 1000, <<>>, <<>>) EXCEPT !.Width = 3000], JpegData \o <<"A", "A", "A", "B">>),
       ImageOf([StyleOf(<<>>, -100, <<>>, <<>>) EXCEPT !.Width = -100], PngData \o <<"A", "A", "A", "=">>),
       ImageOf(NoStyle, <<"x", ".", "p", "n", "g">>),
       TextOfStyle(<<"s">>, [StyleOf(<<>>, -200, <<-300, 0, -100>>, <<>>) EXCEPT
                                !.Bold = TRUE, !.Italic = TRUE, !.Size = 1400,
                                !.Color = <<"#", "3", "3", "6", "6", "9", "9">>, !.BgColor = <<"#", "e", "e", "e">>]),
       [NoElement EXCEPT !.Type = <<"s", "p", "a", "c", "e">>,
                         !.Style = StyleOf(<<>>, -400, <<-100>>, <<>>)],
       GridOf(StyleOf(<<>>, 0, <<-500>>, <<>>), 2,
              << [NoElement EXCEPT !.Type = <<"s", "p", "a", "c", "e">>,
                                   !.Style = StyleOf(<<>>, -400, <<>>, <<>>)],
                 TextOfStyle(<<"n">>, StyleOf(<<>>, -100, <<-50>>, <<>>)),
                 LineOf(NoStyle, 0) >>),
       [NoElement EXCEPT !.Type = <<"c", "h", "a", "r", "t">>],
       GridOf(StyleOf(<<>>, 0, <<300, 0, 200>>, <<>>), 2, <<>>),
       TableOf([StyleOf(Center, 0, <<>>, <<>>) EXCEPT !.Bold = TRUE, !.Color = <<"#", "0", "0", "f">>],
               <<>>, VSeq(<<RowOf(<<<<"x">>>>)>>)),
       GridOf(NoStyle, -1, <<TextOfStyle(<<"h">>, NoStyle)>>),
       GridOf(StyleOf(<<>>, 0, <<100>>, <<>>), 1,
              << TextOfStyle(<<"j">>, StyleOf(Right, 0, <<>>, <<>>)),
                 TextOfStyle(<<"k">>, StyleOf(<<>>, 400, <<200>>, <<>>)) >>) >>

InitBuild ==
    \E n \in 1..MaxElements :
      \E parts \in [1..n -> 1..Len(Parts)] :
        /\ template = [Elements |-> [i \in 1..n |-> Parts[parts[i]]]]
        /\ mpc = "build"
        /\ route = "GeneratePDF"
        /\ stdin = <<>>
        /\ input = NoInput
        /\ pdf = NewPdf
        /\ el = 0
        /\ TemplateIdle
        /\ SpacingIdle
        /\ ConcurrentIdle

NextBuild == NewBuilder \/ RenderNext \/ WriteOutput

SpecBuild == InitBuild /\ [][NextBuild]_vars

(***************************************************************************)
(* Concurrent calls of GeneratePDF.  Each call holds its own PDFBuilder;   *)
(* NewPDFBuilder asks gofpdf.New for a session, and every drawing call of  *)
(* the builder goes to the session the builder holds.  The steps of the    *)
(* calls interleave freely.  The embedded font bytes are the only package  *)
(* level variables and nothing writes them.                                *)
(***************************************************************************)
Calls == {1, 2}

\* the templates the concurrent calls are given
Jobs ==
    <<[Elements |-> <<Parts[2], Parts[7]>>],
      [Elements |-> <<Parts[13], Parts[1]>>],
      [Elements |-> <<Parts[10], Parts[3]>>],
      [Elements |-> <<Parts[5]>>]>>

\* gofpdf.New: the session it returns is a new one
gofpdfNew_Shared(ss) == 1

gofpdfNew(ss) == Len(ss) + 1

\* the sessions after session s has been set to p, s being an old or a new one
Stored(ss, s, p) == IF s > Len(ss) THEN Append(ss, p) ELSE [ss EXCEPT ![s] = p]

InitConcurrent ==
    \E jobs \in [Calls -> 1..Len(Jobs)] :
        /\ builders = [c \in Calls |-> [config |-> Jobs[jobs[c]], pdf |-> 0, el |-> 0, at |-> "call"]]
        /\ sessions = <<>>
        /\ TemplateIdle
        /\ SpacingIdle
        /\ MainIdle

\* GeneratePDF: NewPDFBuilder, then the head of Build
CallNewBuilder(c) ==
    /\ builders[c].at = "call"
    /\ \E s \in {gofpdfNew(sessions)} :
           /\ sessions' = Stored(sessions, s, AddPage)
           /\ builders' = [builders EXCEPT ![c].pdf = s, ![c].at = "render"]
    /\ UNCHANGED <<tvars, svars, mvars>>

\* one turn of Build's loop over the elements of the call's builder
CallRenderNext(c) ==
    /\ builders[c].at = "render"
    /\ builders[c].el < Len(builders[c].config.Elements)
    /\ sessions' = [sessions EXCEPT ![builders[c].pdf] =
                        renderElement(@, builders[c].config.Elements[builders[c].el + 1])]
    /\ builders' = [builders EXCEPT ![c].el = @ + 1]
    /\ UNCHANGED <<tvars, svars, mvars>>

\* pdf.Output and the return of Build
CallOutput(c) ==
    /\ builders[c].at = "render"
    /\ builders[c].el = Len(builders[c].config.Elements)
    /\ builders' = [builders EXCEPT ![c].at = "returned"]
    /\ UNCHANGED <<sessions, tvars, svars, mvars>>

NextConcurrent == \E c \in Calls : CallNewBuilder(c) \/ CallRenderNext(c) \/ CallOutput(c)

SpecConcurrent == InitConcurrent /\ [][NextConcurrent]_vars

(***************************************************************************)
(* Properties of template resolution.                                      *)
(***************************************************************************)
\* a template marker: "{{", at least one character, "}}"
HasMarker(t) ==
    \E i \in 1..Len(t) :
      \E j \in (i + 3)..(Len(t) - 1) :
        t[i] = "{" /\ t[i + 1] = "{" /\ t[j] = "}" /\ t[j + 1] = "}"

IsBlank(t) == \A k \in 1..Len(t) : IsSpace(t[k])

IsPlain(t) == \A k \in 1..Len(t) : t[k] \notin {"{", "}"}

LastIndex(t, c) ==
    IF \E j \in 1..Len(t) : t[j] = c
    THEN CHOOSE j \in 1..Len(t) : t[j] = c /\ \A k \in (j + 1)..Len(t) : t[k] # c
    ELSE 0

\* a second resolution of text t against the mapping vs leaves t as it is
ResolvesToItself(vs, t) ==
    /\ loopsIteration(vs, t).kind = "break"
    /\ ReplaceVars(t, vs, 1) = t

\* C1: a text with no template marker is returned unchanged by ProcessTemplate,
\* whatever the variables; and a resolved text with no marker left is returned
\* unchanged when it is resolved again, against any variable mapping.
C1_MarkerFreeIdentity ==
    /\ (pc = "done" /\ ~HasMarker(templateContent)) => processed = templateContent
    /\ (pc = "done" /\ ~HasMarker(processed)) =>
           \A c \in 1..Len(Cases) : ResolvesToItself(Cases[c].vs, processed)

\* a marker-free text that still holds braces, resolved against bound variables
C1_Witness ==
    /\ pc = "done"
    /\ ~HasMarker(templateContent)
    /\ \E k \in 1..Len(templateContent) : templateContent[k] = "{"
    /\ \E k \in 1..Len(templateContent) : templateContent[k] = "}"
    /\ DOMAIN variables # {}
    /\ processed = templateContent

\* the items of the sequence the loop of the latest iteration ran over
LoopItems == getNestedValue(variables, last.name).q

LoopOverSeq == last.kind = "expand" /\ getNestedValue(variables, last.name).t = "seq"

\* C2: a loop region whose name resolves to a sequence of N items is replaced by
\* the N substituted bodies in order, joined by N-1 commas when the body is not
\* blank (no leading or trailing comma) and by nothing when it is blank; for
\* N = 0 the region is replaced by the empty text.
C2_LoopJoinedByCommas ==
    LoopOverSeq =>
        LET parts == [i \in 1..Len(LoopItems) |->
                         iterationText(variables, LoopItems[i], i - 1, last.body)]
            expected == IF IsBlank(last.body) THEN Concat(parts) ELSE JoinComma(parts)
        IN  /\ last.out = expected
            /\ result = Slice(last.before, 1, last.st - 1) \o expected
                        \o Slice(last.before, last.ee + 1, Len(last.before))
            /\ Len(LoopItems) = 0 => last.out = <<>>

\* a loop over two items with a non-blank body, between other text
C2_Witness ==
    /\ LoopOverSeq
    /\ Len(LoopItems) = 2
    /\ ~IsBlank(last.body)
    /\ last.st > 1
    /\ last.ee < Len(last.before)
    /\ Len(SelectSeq(last.out, LAMBDA c : c = ",")) = 1

RECURSIVE Defined(_, _)
\* every part of the path names a key of the mapping reached so far
Defined(v, parts) ==
    \/ parts = <<>>
    \/ /\ v.t = "map"
       /\ Head(parts) \in DOMAIN v.m
       /\ Defined(v.m[Head(parts)], Tail(parts))

IsAbsent(v) == v.t = "string" /\ v.s = <<>>

\* the text is pre {{interior}} post with pre, interior and post free of braces
OneMarkerShape(t) ==
    LET i == IndexFrom(t, "{", 1)
        e == LastIndex(t, "}")
    IN  /\ i > 0
        /\ e >= i + 4
        /\ t[i + 1] = "{"
        /\ t[e - 1] = "}"
        /\ IsPlain(Slice(t, 1, i - 1))
        /\ IsPlain(Slice(t, i + 2, e - 2))
        /\ IsPlain(Slice(t, e + 1, Len(t)))

MarkerPath(t) == TrimSpace(Slice(t, IndexFrom(t, "{", 1) + 2, LastIndex(t, "}") - 2))

\* C3: a path with a missing part, or with a part looked up in a value that is no
\* mapping, resolves to Absent (the empty string); and a text made of one scalar
\* marker with such a path between brace-free texts resolves to those two texts.
C3_AbsentIsEmpty ==
    /\ \A c \in 1..Len(Cases) :
         \A p \in 1..Len(Cases[c].paths) :
           LET path == TrimSpace(Cases[c].paths[p])
           IN  ~Defined(VMap(variables), Split(path, ".")) =>
                   IsAbsent(getNestedValue(variables, path))
    /\ ( /\ pc = "done"
         /\ OneMarkerShape(templateContent)
         /\ ~HasPrefix(MarkerPath(templateContent), "#")
         /\ ~HasPrefix(MarkerPath(templateContent), "/")
         /\ ~Defined(VMap(variables), Split(MarkerPath(templateContent), ".")) )
       => processed = Slice(templateContent, 1, IndexFrom(templateContent, "{", 1) - 1)
                      \o Slice(templateContent, LastIndex(templateContent, "}") + 1,
                               Len(templateContent))

\* a dotted path that fails below an existing first part, with text on both sides
C3_Witness ==
    /\ pc = "done"
    /\ OneMarkerShape(templateContent)
    /\ Len(Split(MarkerPath(templateContent), ".")) = 2
    /\ Head(Split(MarkerPath(templateContent), ".")) \in DOMAIN variables
    /\ ~Defined(VMap(variables), Split(MarkerPath(templateContent), "."))
    /\ templateContent[1] = "t"
    /\ templateContent[Len(templateContent)] = "t"
    /\ processed = <<"t", "t">>

\* C4: when a loop-start marker has no end marker after it, only that marker is
\* removed: the text before it and the text after it are both kept.
C4_UnmatchedStartOnlyDropped ==
    last.kind = "drop" =>
        result = Slice(last.before, 1, last.st - 1)
                 \o Slice(last.before, last.se + 1, Len(last.before))

\* C5: the loop-expansion pass ends, for every raw text and every variable
\* mapping, also when string values hold markers of their own.  An iteration is
\* a function of the variables and the text, so a pass that ends never holds the
\* same text twice: stated as that, a finite run refutes it.
C5_LoopsTerminate == ~Repeated

\* the texts of the cells drawn on the page, in drawing order
CellTexts(p) == [i \in 1..Len(p.cells) |-> p.cells[i].txt]

\* C6: end to end through main, a table of one column (header H) whose rows field
\* is the string {{#items}}{"cells":["{{v}}"]}{{/items}}, resolved with
\* items = [{v:x},{v:y}], is drawn as one header cell and then two data rows,
\* the cells x and y.
C6_LoopRowsRendered ==
    ( /\ mpc = "written"
      /\ stdin = StdinOf("envelope", DescLoopRows, VarsFull) )
    => CellTexts(pdf) = <<<<"H">>, <<"x">>, <<"y">>>>

\* C7: parseSpacing maps the array v to top, right, bottom and left by its length:
\* none -> all zero; one -> all four v[1]; two -> top = bottom = v[1] and
\* left = right = v[2]; three -> top v[1], left = right = v[2], bottom v[3]; four
\* or more -> top v[1], right v[2], bottom v[3], left v[4], the rest ignored.
C7_SpacingByLength ==
    spacing.done =>
        LET n == Len(values)
        IN  /\ spacing.out.Top = (IF n = 0 THEN 0 ELSE values[1])
            /\ spacing.out.Right = (IF n = 0 THEN 0 ELSE IF n = 1 THEN values[1] ELSE values[2])
            /\ spacing.out.Bottom = (IF n = 0 THEN 0 ELSE IF n <= 2 THEN values[1] ELSE values[3])
            /\ spacing.out.Left = (IF n = 0 THEN 0 ELSE IF n = 1 THEN values[1]
                                   ELSE IF n <= 3 THEN values[2] ELSE values[4])

\* five values, the first four all different: left is the fourth, the fifth is ignored
C7_Witness ==
    /\ spacing.done
    /\ values = <<500, 1000, 1500, -500, 0>>
    /\ spacing.out = [Top |-> 500, Right |-> 1000, Bottom |-> 1500, Left |-> -500]

\* what key is bound to in iteration i (0-based) over item: def says whether it is bound
ExpectedBinding(vs, item, i, key) ==
    IF key = Key_index THEN [def |-> TRUE, v |-> VInt(i)]
    ELSE IF key = Key_index1 THEN [def |-> TRUE, v |-> VInt(i + 1)]
    ELSE IF item.t = "map" /\ key \in DOMAIN item.m THEN [def |-> TRUE, v |-> item.m[key]]
    ELSE IF item.t # "map" /\ key = Key_item THEN [def |-> TRUE, v |-> item]
    ELSE IF key \in DOMAIN vs THEN [def |-> TRUE, v |-> vs[key]]
    ELSE [def |-> FALSE, v |-> VStr(<<>>)]

ProbeKeys == {Key_index, Key_index1, Key_item, K("v"), K("o"), K("x"), K("a"), K("b"), K("q")}

\* C8: in iteration i (0-based) the body is substituted against a mapping where
\* index = i and index1 = i+1 whatever else binds those names, a mapping item's
\* fields shadow the outer variables, an item that is no mapping is bound under
\* "item", and every other outer variable is still bound to its outer value.
C8_IterationContext ==
    LoopOverSeq =>
        /\ \A i \in 1..Len(LoopItems) :
             LET ctx == tempVars(variables, LoopItems[i], i - 1)
             IN  \A k \in ProbeKeys \cup DOMAIN ctx :
                   LET exp == ExpectedBinding(variables, LoopItems[i], i - 1, k)
                   IN  /\ (k \in DOMAIN ctx) = exp.def
                       /\ exp.def => ctx[k] = exp.v
        /\ \A k \in ProbeKeys :
             last.body = Mark(k) =>
                 last.out = JoinComma([i \in 1..Len(LoopItems) |->
                     valueToString(ExpectedBinding(variables, LoopItems[i], i - 1, k).v)])

\* a loop whose body is {{index}}, over items one of which has a field "index",
\* with an outer variable "index" as well
C8_Witness ==
    /\ LoopOverSeq
    /\ last.body = Mark(Key_index)
    /\ Key_index \in DOMAIN variables
    /\ \E i \in 1..Len(LoopItems) :
         LoopItems[i].t = "map" /\ Key_index \in DOMAIN LoopItems[i].m
    /\ \E i \in 1..Len(LoopItems) : LoopItems[i].t # "map"
    /\ last.out = <<"0", ",", "1", ",", "2">>

\* how the documentation writes a variable's value: a whole number without
\* decimals, any other number with two decimals, a boolean as true or false
DocumentedText(v) ==
    IF v.t = "float" /\ v.n % 100 = 0 THEN FormatInt(v.n \div 100)
    ELSE IF v.t = "float" THEN FormatFloat2(v.n)
    ELSE IF v.t = "bool" THEN (IF v.n = 1 THEN <<"t", "r", "u", "e">> ELSE <<"f", "a", "l", "s", "e">>)
    ELSE <<>>

ScalarKeys == <<<<"c", "o", "u", "n", "t">>, <<"p", "r", "i", "c", "e">>, <<"o", "k">>>>

\* the run read the three texts {{count}}, {{price}}, {{ok}} with variables vs
ScalarsRun(vs) == mpc = "written" /\ stdin = StdinOf("envelope", DescScalars, vs)

\* C9: a number supplied in the JSON variables that is whole (count = 42) is
\* substituted without decimals ({{count}} becomes 42), any other number with
\* exactly two decimals, and a boolean as true or false.
C9_WholeNumberWithoutDecimals ==
    \A s \in {1, 2} :
        ScalarsRun(VarSets[s]) =>
            CellTexts(pdf) = [i \in 1..3 |-> DocumentedText(VarSets[s][ScalarKeys[i]])]

\* main has taken one of its two branches
Dispatched == mpc \in {"resolving", "build", "render", "written"}

Resolved == route = "GeneratePDFFromContent" /\ pc # "idle"

\* C10 as stated: template resolution is performed exactly when variables come
\* with the descriptor: a bare descriptor is rendered without substitution, an
\* envelope with a descriptor and variables is resolved against them, and an
\* envelope whose descriptor comes without a variables field is not resolved.
C10_ResolvedIffVariables ==
    Dispatched =>
        /\ (~input.hasTemplate /\ ~input.hasVars) => ~Resolved
        /\ (input.hasTemplate /\ input.hasVars) => (Resolved /\ variables = input.PdfVars)
        /\ (input.hasTemplate /\ ~input.hasVars) => ~Resolved

\* C10: template resolution is performed exactly when the descriptor comes in the
\* envelope's pdf_template field: with a variables field it is resolved against
\* those variables, without one against an empty mapping; a descriptor at the top
\* level is rendered as it stands, without substitution, also when a variables
\* field stands next to it.
C10_ResolvedIffTemplateField ==
    Dispatched =>
        /\ Resolved <=> input.hasTemplate
        /\ Resolved =>
              /\ templateContent = MarshalTemplate(input.PdfTemplate)
              /\ variables = (IF input.hasVars THEN input.PdfVars ELSE NoMap)
        /\ ~Resolved =>
              /\ route = "GeneratePDF"
              /\ template = input.Template

\* an envelope with a descriptor and no variables field: the three markers are
\* resolved against the empty mapping and the texts are drawn empty
C10_Witness ==
    /\ mpc = "written"
    /\ stdin = StdinOf("envelopeOnly", DescScalars, VarsFull)
    /\ input.hasTemplate
    /\ ~input.hasVars
    /\ Resolved
    /\ variables = NoMap
    /\ CellTexts(pdf) = <<<<>>, <<>>, <<>>>>

\* the latest iteration expanded a loop whose name resolves to no sequence
LoopOverOther == last.kind = "expand" /\ getNestedValue(variables, last.name).t # "seq"

\* C11: when the name of a matched loop resolves to anything but a sequence
\* (nothing, a string, a number, a boolean, a mapping), the whole region from its
\* start marker to its end marker is replaced by the empty text, and the text
\* before and after the region stays as it was.
C11_NonSequenceLoopIsEmpty ==
    LoopOverOther =>
        /\ last.out = <<>>
        /\ SubSeq(last.before, last.st, last.ee)
               = Mark(<<"#">> \o last.name) \o last.body \o Mark(<<"/">> \o last.name)
        /\ result = Slice(last.before, 1, last.st - 1)
                    \o Slice(last.before, last.ee + 1, Len(last.before))

\* a loop over a mapping, with a body that holds a marker, between two texts
C11_Witness ==
    /\ LoopOverOther
    /\ getNestedValue(variables, last.name).t = "map"
    /\ last.body = Mark(K("v"))
    /\ last.before = <<"t">> \o FragText("loop", K("v")) \o <<"t">>
    /\ result = <<"t", "t">>

(***************************************************************************)
(* Properties of Build: what one turn of its loop draws.                   *)
(***************************************************************************)
\* the element the next turn of Build's loop renders
Current == template.Elements[el + 1]

\* the cells that a step adds to the page
NewCells == SubSeq(pdf'.cells, Len(pdf.cells) + 1, Len(pdf'.cells))

IsTable(e) == e.Type = <<"t", "a", "b", "l", "e">> /\ Len(e.Columns) > 0

\* the sum of the widths of the first n columns
RECURSIVE WidthBefore(_, _)
WidthBefore(columns, n) ==
    IF n = 0 THEN 0 ELSE WidthBefore(columns, n - 1) + columns[n].Width

\* where the claim has the table start: L, L + (A - W)/2 or L + (A - W)
ExpectedStartX(e) ==
    LET W == WidthBefore(e.Columns, Len(e.Columns))
        A == PageWidth - MarginLeft - MarginRight
    IN  IF ~e.Style.nil /\ e.Style.Align = Center THEN MarginLeft + (A - W) \div 2
        ELSE IF ~e.Style.nil /\ e.Style.Align = Right THEN MarginLeft + (A - W)
        ELSE MarginLeft

CursorXs == {0, MarginLeft, 7500, 12500}

\* C12: a table whose column widths sum to W, on a page with left margin L and
\* available width A, has its first header cell at X = L when aligned left or not
\* aligned, at L + (A - W)/2 when centred and at L + (A - W) when aligned right;
\* that X does not depend on where the cursor is when the table is rendered, and
\* every data row starts at the same X.
C12_TableStartX ==
    [][(RenderNext /\ IsTable(Current)) =>
          /\ NewCells # <<>> => NewCells[1].x = ExpectedStartX(Current)
          /\ \A i \in 2..Len(NewCells) :
                NewCells[i].y # NewCells[i - 1].y => NewCells[i].x = ExpectedStartX(Current)
          /\ \A x \in CursorXs :
                renderTable(SetXY(pdf, x, pdf.y), Current).cells
                    = renderTable(pdf, Current).cells]_vars

\* a centred table rendered where a right-aligned table has left the cursor
C12_Witness ==
    /\ el = 2
    /\ template.Elements = <<Parts[10], Parts[8]>>
    /\ renderElement(AddPage, Parts[10]).x = 12500
    /\ Len(pdf.cells) = 5
    /\ pdf.cells[4].x = 8500
    /\ pdf.cells[5].x = 8500
    /\ pdf.cells[5].y = pdf.cells[4].y + HeaderHeight

IsGrid(e) == e.Type = <<"g", "r", "i", "d">> /\ e.GridColumns > 0 /\ Len(e.Children) > 0

Batches(e) == (Len(e.Children) + e.GridColumns - 1) \div e.GridColumns

\* the positions among the children of those of batch k (from 1)
BatchChildren(e, k) ==
    {i \in 1..Len(e.Children) : (i - 1) \div e.GridColumns = k - 1}

Greatest(S) == CHOOSE h \in S : \A g \in S : g <= h

\* how far child i moves the cursor down when it alone is rendered in its column
\* from Y = s
HeightAlone(e, i, s) ==
    gridChild(AddPage, e.Children[i], (i - 1) % e.GridColumns, s,
              (PageWidth - MarginLeft - MarginRight) \div e.GridColumns).y - s

\* Y of the cursor after the first k batches of a grid that starts at Y = s, as
\* the claim has it: each batch adds its greatest height and the gap
RECURSIVE ExpectedGridY(_, _, _)
ExpectedGridY(e, s, k) ==
    IF k = 0 THEN s
    ELSE LET Below(start) ==
                 start + GridGap
                 + Greatest({0} \cup {HeightAlone(e, i, start) : i \in BatchChildren(e, k)})
         IN  Below(ExpectedGridY(e, s, k - 1))

\* the grid cut after its first k batches
FirstBatches(e, k) ==
    [e EXCEPT !.Children =
        SubSeq(e.Children, 1, IF k * e.GridColumns < Len(e.Children)
                              THEN k * e.GridColumns ELSE Len(e.Children))]

\* C13: for every batch (visual row) of a grid that starts at Y = s, once the batch
\* is committed the cursor is at X = left page margin and Y = s + m + 2, where
\* m >= 0 is the greatest height measured over the batch's children: the next row
\* starts below the tallest child, whatever the heights and the order of the
\* others.
C13_GridRowAdvance ==
    [][(RenderNext /\ IsGrid(Current)) =>
          /\ \A k \in 1..Batches(Current) :
                /\ renderGrid(applyMargin(pdf, Current.Style), FirstBatches(Current, k)).x
                       = MarginLeft
                /\ renderGrid(applyMargin(pdf, Current.Style), FirstBatches(Current, k)).y
                       = ExpectedGridY(Current, applyMargin(pdf, Current.Style).y, k)
          /\ pdf' = applyBottomMargin(renderGrid(applyMargin(pdf, Current.Style), Current),
                                      Current.Style)]_vars

\* a grid of two columns and two rows: in the first row the first child is the
\* taller one, and the second row starts below it
C13_Witness ==
    /\ el = 1
    /\ template.Elements[1] = Parts[12]
    /\ pdf.cells[1].h = 1500
    /\ pdf.cells[2].h = 750
    /\ pdf.cells[2].y = pdf.cells[1].y
    /\ pdf.x = MarginLeft
    /\ pdf.y = MarginTop + 1500 + GridGap + SpaceHeight + GridGap

\* the cursor moved down by h, when h > 0
Down(p, h) == IF h > 0 THEN Ln(p, h) ELSE p

\* the top and the bottom margin of a style: the first value of its margin, and
\* the first or, from three values on, the third
TopOf(style) == IF style.nil \/ style.Margin = <<>> THEN 0 ELSE style.Margin[1]

BottomOf(style) ==
    IF style.nil \/ style.Margin = <<>> THEN 0
    ELSE IF Len(style.Margin) <= 2 THEN style.Margin[1] ELSE style.Margin[3]

\* the rendering that is specific to the element's type, at the top level and in
\* a grid column of width w
ByType(p, e) == renderByType(p, e)

ByTypeInWidth(p, e, w) ==
    IF e.Type = <<"t", "e", "x", "t">> THEN renderTextInWidth(p, e, w) ELSE renderByType(p, e)

\* C14: for every element that is rendered, at the top level or as a child of a
\* grid and whatever its type, a top margin t > 0 moves the cursor down by t
\* before the rendering specific to its type, and a bottom margin b > 0 moves it
\* down by b after that rendering.
C14_MarginsAroundEveryElement ==
    [][RenderNext =>
          /\ pdf' = Down(ByType(Down(pdf, TopOf(Current.Style)), Current),
                         BottomOf(Current.Style))
          /\ IsGrid(Current) =>
                \A i \in BatchChildren(Current, 1) :
                    LET w == (PageWidth - MarginLeft - MarginRight) \div Current.GridColumns
                        at == SetXY(pdf, MarginLeft + (i - 1) * w, pdf.y + TopOf(Current.Style))
                        child == Current.Children[i]
                    IN  renderElementInWidth(at, child, w - GridGutter)
                            = Down(ByTypeInWidth(Down(at, TopOf(child.Style)), child,
                                                 w - GridGutter),
                                   BottomOf(child.Style))]_vars

\* ---------------------------------------------------------------------------
\* Properties of GeneratePDFFromContent
\* ---------------------------------------------------------------------------

\* GeneratePDFFromContent has returned an error
ContentError == route = "GeneratePDFFromContent" /\ mpc = "exit1"

\* C15: GeneratePDFFromContent returns an error only when the resolved text
\* fails structural parsing (or the backend fails to finalize the output); for a
\* descriptor that is well formed as written, a missing variable, an unmatched
\* loop marker, a non-sequence loop target, an unknown element type, a table
\* without columns or a grid with a non-positive column count never produce an
\* error, and the build still returns bytes.
C15_DegradedInputsStillBuild ==
    /\ ContentError => pc = "done" /\ ~UnmarshalTemplate(processed).ok
    /\ route = "GeneratePDFFromContent" /\ UnmarshalTemplate(templateContent).ok
          => ~ContentError

\* ---------------------------------------------------------------------------
\* Properties of concurrent builds
\* ---------------------------------------------------------------------------

\* what a session holds after a build of template t, running alone, has
\* rendered its first n elements
RECURSIVE Alone(_, _)
Alone(t, n) == IF n = 0 THEN AddPage ELSE renderElement(Alone(t, n - 1), t.Elements[n])

Started(c) == builders[c].at \in {"render", "returned"}

\* C16: every call of GeneratePDF has its own builder, session and cursor: under
\* every interleaving of two concurrent builds, no two builders hold the same
\* session, and the cells a build has drawn and its cursor are those of the same
\* build running alone.
C16_BuildsIndependent ==
    /\ \A c \in Calls :
          Started(c) => sessions[builders[c].pdf] = Alone(builders[c].config, builders[c].el)
    /\ \A c, d \in Calls :
          Started(c) /\ Started(d) /\ c # d => builders[c].pdf # builders[d].pdf

\* both builds are under way, each has drawn, and the one that started second
\* has drawn while the first was not finished
C16_Witness ==
    /\ \A c \in Calls : builders # <<>> /\ builders[c].at = "render" /\ builders[c].el = 1
    /\ builders[1].config # builders[2].config
    /\ builders[1].pdf = 2
    /\ sessions[1].cells # <<>> /\ sessions[2].cells # <<>>

\* ---------------------------------------------------------------------------
\* Properties of the escaping of string values
\* ---------------------------------------------------------------------------

\* what one character becomes, whatever stands around it
EscapedChar(c) ==
    CASE c = "\\" -> <<"\\", "\\">>
      [] c = "\"" -> <<"\\", "\"">>
      [] c = "\n" -> <<"\\", "n">>
      [] c = "\r" -> <<"\\", "r">>
      [] c = "\t" -> <<"\\", "t">>
      [] OTHER -> <<c>>

\* one pass from left to right, each character on its own
SinglePass(s) == Concat([i \in 1..Len(s) |-> EscapedChar(s[i])])

\* C17: the text inserted for a string value is the result of a single pass from
\* left to right that maps each character on its own (backslash to two
\* backslashes, quote to backslash quote, newline, carriage return and tab to
\* backslash n, r, t, any other character to itself); the backslashes the pass
\* writes are not escaped again.
C17_EscapingIsSinglePass ==
    \A k \in DOMAIN variables :
        variables[k].t = "string" /\ templateContent = <<"x">> \o Mark(k) \o <<"y">>
            => /\ valueToString(variables[k]) = SinglePass(variables[k].s)
               /\ pc = "done" => processed = <<"x">> \o SinglePass(variables[k].s) \o <<"y">>

\* a value with a quote, a backslash and a newline has been inserted
C17_Witness ==
    /\ pc = "done"
    /\ templateContent = <<"x">> \o Mark(<<"v">>) \o <<"y">>
    /\ <<"v">> \in DOMAIN variables
    /\ variables[<<"v">>].s = <<"\"", "\\", "\n">>
    /\ processed = <<"x", "\\", "\"", "\\", "\\", "\\", "n", "y">>

\* ---------------------------------------------------------------------------
\* Properties of tables
\* ---------------------------------------------------------------------------

\* the table has at least one data row: its rows are an array with an object in it
HasRows(e) == e.Rows.t = "seq" /\ \E i \in 1..Len(e.Rows.q) : e.Rows.q[i].t = "map"

\* the cells begin with one header cell per column of e, in the columns' order,
\* side by side at height y0, and every cell after them is below the header
HeadersDrawn(e, cells, y0) ==
    /\ Len(cells) >= Len(e.Columns)
    /\ \A i \in 1..Len(e.Columns) :
          /\ cells[i].txt = e.Columns[i].Header
          /\ cells[i].h = HeaderHeight
          /\ cells[i].w = e.Columns[i].Width
          /\ cells[i].y = y0
          /\ cells[i].x = ExpectedStartX(e) + WidthBefore(e.Columns, i - 1)
    /\ \A i \in (Len(e.Columns) + 1)..Len(cells) : cells[i].y >= y0 + HeaderHeight

\* C18 as stated: a table with at least one column draws exactly one header cell
\* per column, in column order, each of height 8 and of its column's width,
\* before any data row, also when the table has no data row.
C18_HeaderPerColumn ==
    [][(RenderNext /\ IsTable(Current)) =>
          HeadersDrawn(Current, NewCells, pdf.y + TopOf(Current.Style))]_vars

\* C18, amended: a table with at least one column and at least one data row draws
\* exactly one header cell per column, in column order, each of height 8 and of
\* its column's width, before any data row; a table with no data row draws
\* nothing, not even its header.
C18_HeaderPerColumnWithRows ==
    [][(RenderNext /\ IsTable(Current)) =>
          IF HasRows(Current)
          THEN HeadersDrawn(Current, NewCells, pdf.y + TopOf(Current.Style))
          ELSE NewCells = <<>>]_vars

\* the table of two columns and three rows has been drawn: two header cells, then
\* five data cells
C18_Witness ==
    /\ mpc = "render"
    /\ el = 1
    /\ template.Elements[1] = Parts[7]
    /\ Len(pdf.cells) = 7
    /\ pdf.cells[1].txt = <<"H">> /\ pdf.cells[2].txt = <<"I">>
    /\ pdf.cells[2].x = pdf.cells[1].x + 4000
    /\ pdf.cells[3].y = pdf.cells[1].y + HeaderHeight

\* the row objects of a table, and the cells of one of them
DataRows(e) == IF e.Rows.t = "seq" THEN SelectSeq(e.Rows.q, LAMBDA item : item.t = "map") ELSE <<>>

CellsIn(item) ==
    IF <<"c", "e", "l", "l", "s">> \in DOMAIN item.m /\ item.m[<<"c", "e", "l", "l", "s">>].t = "seq"
    THEN item.m[<<"c", "e", "l", "l", "s">>].q
    ELSE <<>>

\* min(k, n)
Least(k, n) == IF k < n THEN k ELSE n

\* the number of data cells the first r rows draw in n columns
RECURSIVE DrawnBefore(_, _, _)
DrawnBefore(rows, r, n) ==
    IF r = 0 THEN 0 ELSE DrawnBefore(rows, r - 1, n) + Least(Len(CellsIn(rows[r])), n)

\* cells are those of a table e whose header is at height y0: after the header
\* cells, row r has its first min(k, |C|) cells, the i-th one in column i
RowsDrawn(e, rows, cells, y0) ==
    /\ Len(cells) = Len(e.Columns) + DrawnBefore(rows, Len(rows), Len(e.Columns))
    /\ \A r \in 1..Len(rows) :
          \A i \in 1..Least(Len(CellsIn(rows[r])), Len(e.Columns)) :
              \E c \in {cells[Len(e.Columns) + DrawnBefore(rows, r - 1, Len(e.Columns)) + i]} :
                  /\ c.txt = CellsIn(rows[r])[i].s
                  /\ c.w = e.Columns[i].Width
                  /\ c.h = RowHeight
                  /\ c.x = ExpectedStartX(e) + WidthBefore(e.Columns, i - 1)
                  /\ c.y = y0 + HeaderHeight + (r - 1) * RowHeight

\* C19: for a table with columns C and R >= 1 rows, a row with k cells draws
\* exactly min(k, |C|) data cells, the i-th one in column i with the width of
\* that column, and the cells beyond |C| are dropped; the header and every row
\* take 8 each, so that after the table the cursor is at Y = Y0 + 8 * (R + 1) and
\* at the X where the table starts.
C19_RowCellsAndCursor ==
    [][(RenderNext /\ IsTable(Current) /\ HasRows(Current)) =>
          \E p0 \in {Down(pdf, TopOf(Current.Style))} :
              /\ RowsDrawn(Current, DataRows(Current), NewCells, p0.y)
              /\ renderTable(p0, Current).y
                     = p0.y + HeaderHeight + RowHeight * Len(DataRows(Current))
              /\ renderTable(p0, Current).x = ExpectedStartX(Current)
              /\ pdf' = Down(renderTable(p0, Current), BottomOf(Current.Style))]_vars

\* after a text, the table with rows of two, one and three cells in two columns
\* has drawn two, one and two data cells and left the cursor four times 8 lower
C19_Witness ==
    /\ el = 2
    /\ template.Elements = <<Parts[1], Parts[7]>>
    /\ Len(pdf.cells) = 8
    /\ pdf.cells[8].txt = <<"q">>
    /\ pdf.cells[6].y = pdf.cells[5].y + RowHeight
    /\ pdf.y = MarginTop + TextHeight + 4 * RowHeight
    /\ pdf.x = MarginLeft

\* ---------------------------------------------------------------------------
\* Properties of texts
\* ---------------------------------------------------------------------------

IsText(e) == e.Type = <<"t", "e", "x", "t">>

\* the left and the right value of a margin or padding written as v
LeftIn(v) ==
    IF Len(v) = 0 THEN 0
    ELSE IF Len(v) = 1 THEN v[1]
    ELSE IF Len(v) >= 4 THEN v[4] ELSE v[2]

RightIn(v) == IF Len(v) = 0 THEN 0 ELSE IF Len(v) = 1 THEN v[1] ELSE v[2]

MarginOf(style) == IF style.nil THEN <<>> ELSE style.Margin

PaddingOf(style) == IF style.nil THEN <<>> ELSE style.Padding

\* C20: every top-level text, whatever was rendered before it, is drawn with its
\* left edge at X = page left margin + margin-left + padding-left and with
\* width = available width - (margin-left + margin-right) - (padding-left +
\* padding-right), so that it does not reach beyond the page's right margin.
C20_TextWithinMargins ==
    [][(RenderNext /\ IsText(Current)) =>
          /\ NewCells # <<>>
          /\ \A i \in 1..Len(NewCells) :
                /\ NewCells[i].x = MarginLeft + LeftIn(MarginOf(Current.Style))
                                       + LeftIn(PaddingOf(Current.Style))
                /\ NewCells[i].w = (PageWidth - MarginLeft - MarginRight)
                                       - (LeftIn(MarginOf(Current.Style)) + RightIn(MarginOf(Current.Style)))
                                       - (LeftIn(PaddingOf(Current.Style)) + RightIn(PaddingOf(Current.Style)))
                /\ NewCells[i].x + NewCells[i].w <= PageWidth - MarginRight]_vars

\* ---------------------------------------------------------------------------
\* Properties of elements that draw nothing
\* ---------------------------------------------------------------------------

\* a table without columns, a grid without columns or without children
Degenerate(e) ==
    \/ e.Type = <<"t", "a", "b", "l", "e">> /\ Len(e.Columns) = 0
    \/ e.Type = <<"g", "r", "i", "d">> /\ (e.GridColumns <= 0 \/ Len(e.Children) = 0)

\* C21: the rendering specific to a table with no column definitions, and to a
\* grid with gridColumns <= 0 or with no children, calls nothing of the drawing
\* backend and leaves the cursor's X and Y as they are: all that such an element
\* does to the session is what its own margins do.
C21_DegenerateDrawsNothing ==
    [][(RenderNext /\ Degenerate(Current)) =>
          /\ \A q \in {Down(pdf, TopOf(Current.Style))} : renderByType(q, Current) = q
          /\ pdf' = Down(Down(pdf, TopOf(Current.Style)), BottomOf(Current.Style))]_vars

\* after a table that is set to the right, a table without columns has been
\* passed: the cursor still stands where the first table left it
C21_Witness ==
    /\ el = 2
    /\ Degenerate(template.Elements[2])
    /\ template.Elements[2].Columns = <<>>
    /\ template.Elements[2].Rows.q # <<>>
    /\ pdf.cells # <<>>
    /\ pdf.x # MarginLeft

\* the types renderElement has a case for
KnownTypes ==
    {<<"t", "e", "x", "t">>, <<"t", "a", "b", "l", "e">>, <<"g", "r", "i", "d">>,
     <<"s", "p", "a", "c", "e">>, <<"l", "i", "n", "e">>, <<"i", "m", "a", "g", "e">>}

\* h when it is positive, else 0
Positive(h) == IF h > 0 THEN h ELSE 0

\* C22: an element whose type is none of text, table, grid, space, line and image
\* draws nothing and changes no drawing state (font, colours, line width); all it
\* does is move the cursor by its own positive top and bottom margins, so that
\* the elements after it are rendered from a session that differs in the cursor
\* only.
C22_UnknownTypeSkipped ==
    [][(RenderNext /\ Current.Type \notin KnownTypes) =>
          \E moved \in {Positive(TopOf(Current.Style)) + Positive(BottomOf(Current.Style))} :
              pdf' = [pdf EXCEPT !.y = pdf.y + moved,
                                 !.x = IF moved > 0 THEN MarginLeft ELSE pdf.x]]_vars

\* a bold, coloured text and then an element of type "note" with margins of 5: one
\* cell is drawn, the font and the colours are those of the text and the cursor
\* is 10 lower
C22_Witness ==
    /\ el = 2
    /\ template.Elements = <<Parts[21], Parts[6]>>
    /\ Len(pdf.cells) = 1
    /\ pdf.font = <<DefaultFont, <<"B", "I">>, 1400>>
    /\ pdf.textColor = <<51, 102, 153>>
    /\ pdf.y = MarginTop + TextHeight + 500 + 500

\* ---------------------------------------------------------------------------
\* Properties of the scalar pass and of the loops' contexts
\* ---------------------------------------------------------------------------

\* the position where the marker that opens at i closes: "{{" at i, then at least
\* one character that is no "}", then "}}"; 0 when no marker opens at i
MarkerEnd(t, i) ==
    IF \E e \in (i + 4)..Len(t) :
           /\ t[i] = "{" /\ t[i + 1] = "{" /\ t[e - 1] = "}" /\ t[e] = "}"
           /\ \A k \in (i + 2)..(e - 2) : t[k] # "}"
    THEN CHOOSE e \in (i + 4)..Len(t) :
           /\ t[e - 1] = "}" /\ t[e] = "}"
           /\ \A k \in (i + 2)..(e - 2) : t[k] # "}"
    ELSE 0

\* the interior of the marker from i to e, without the spaces around it
Interior(t, i, e) == TrimSpace(SubSeq(t, i + 2, e - 2))

\* a marker of a loop: its interior begins with # or /
IsLoopMarker(t, i, e) == Interior(t, i, e) # <<>> /\ Head(Interior(t, i, e)) \in {"#", "/"}

\* what position k of t gives to the text after the scalar pass: nothing inside
\* a marker, at the head of a marker the marker itself or its variable's text,
\* and else the character
AfterScalars(t, vs, k) ==
    IF \E i \in 1..(k - 1) : MarkerEnd(t, i) >= k THEN <<>>
    ELSE IF MarkerEnd(t, k) = 0 THEN <<t[k]>>
    ELSE IF IsLoopMarker(t, k, MarkerEnd(t, k)) THEN SubSeq(t, k, MarkerEnd(t, k))
    ELSE valueToString(getNestedValue(vs, Interior(t, k, MarkerEnd(t, k))))

\* C23: the scalar pass leaves every marker whose interior, without the spaces
\* around it, begins with # or / as it is written -- so an end marker that no loop
\* has consumed stands in the resolved text -- and replaces every other marker by
\* the text of its variable.
C23_LoopMarkersLeftByScalarPass ==
    pc = "done" =>
        processed = Concat([k \in 1..Len(result) |-> AfterScalars(result, variables, k)])

\* an end marker written with spaces, of a loop that was never opened, and then a
\* scalar marker: the first is kept and the second is replaced
C23_Witness ==
    /\ pc = "done"
    /\ templateContent = Mark(<<" ", "/", "b", " ">>) \o Mark(K("v"))
    /\ variables = ScopeItems
    /\ processed = Mark(<<" ", "/", "b", " ">>) \o <<"o">>

\* ---------------------------------------------------------------------------
\* Properties of lines
\* ---------------------------------------------------------------------------

IsLine(e) == e.Type = <<"l", "i", "n", "e">>

\* the lines the step has drawn
NewLines == SubSeq(pdf'.lines, Len(pdf.lines) + 1, Len(pdf'.lines))

\* the step draws one segment, from the cursor below the top margin to endX at
\* the same height, leaves Y 2 lower (and lower by the bottom margin) and the
\* draw colour black
LineDrawnTo(endX) ==
    /\ Len(NewLines) = 1
    /\ NewLines[1].x1 = (Down(pdf, TopOf(Current.Style))).x
    /\ NewLines[1].y1 = (Down(pdf, TopOf(Current.Style))).y
    /\ NewLines[1].x2 = endX
    /\ NewLines[1].y2 = NewLines[1].y1
    /\ pdf'.y = NewLines[1].y1 + LineGap + Positive(BottomOf(Current.Style))
    /\ pdf'.drawColor = Black
    /\ pdf'.cells = pdf.cells

\* C24: a line element draws one horizontal segment from the cursor (x, y) to
\* (x + length, y), or to (page width - right margin, y) when its length is 0 or
\* not given, then moves the cursor's Y down by 2, and afterwards the draw colour
\* is black whatever colour the line's style has set.
C24_LineSegment ==
    [][(RenderNext /\ IsLine(Current)) =>
          LineDrawnTo(IF Current.Length = 0 THEN PageWidth - MarginRight
                      ELSE (Down(pdf, TopOf(Current.Style))).x + Current.Length)]_vars

\* C24, with a negative length read as no length: the segment ends at x + length
\* when the length is positive and at page width - right margin when it is 0,
\* negative or not given.
C24_LineSegmentPositiveLength ==
    [][(RenderNext /\ IsLine(Current)) =>
          LineDrawnTo(IF Current.Length > 0
                      THEN (Down(pdf, TopOf(Current.Style))).x + Current.Length
                      ELSE PageWidth - MarginRight)]_vars

\* a green line of length -5 after a right-aligned table: it runs from the
\* table's left edge to the right margin, and the draw colour is black again
C24_Witness ==
    /\ el = 2
    /\ template.Elements = <<Parts[9], Parts[16]>>
    /\ Len(pdf.lines) = 1
    /\ pdf.lines[1].x1 > MarginLeft
    /\ pdf.lines[1].x2 = PageWidth - MarginRight
    /\ pdf.lines[1].color = <<0, 255, 0>>
    /\ pdf.drawColor = Black
    /\ pdf.y = pdf.lines[1].y1 + LineGap

\* the text of the variable named key in the outer mapping vs
OuterText(vs, key) == valueToString(getNestedValue(vs, key))

\* the pieces that are one loop, and the pieces that are one scalar marker of a
\* name that a loop binds: "o", "index", "item"
LoopPieces == {10, 11, 12}

BoundInLoops == (3 :> K("o")) @@ (8 :> Key_index) @@ (9 :> Key_item)

\* the last n characters of t
Suffix(t, n) == SubSeq(t, Len(t) - n + 1, Len(t))

\* when the body of the loop is the one marker {{key}}: an item that is a mapping
\* without a field key gives the outer variable's text, whatever the other items
\* hold
OthersFieldsUnseen ==
    \A key \in ProbeKeys \ {Key_index, Key_index1} :
        (LoopOverSeq /\ last.body = Mark(key)) =>
            \A j \in 1..Len(LoopItems) :
                (LoopItems[j].t = "map" /\ key \notin DOMAIN LoopItems[j].m) =>
                    Split(last.out, ",")[j] = OuterText(variables, key)

\* a marker after a loop is replaced by the outer variable's text
OuterAfterLoop ==
    \A p \in LoopPieces :
        \A q \in DOMAIN BoundInLoops :
            (pc = "done" /\ templateContent = ScopePieces[p] \o ScopePieces[q]) =>
                \E tail \in {OuterText(variables, BoundInLoops[q])} :
                    /\ Len(processed) >= Len(tail)
                    /\ Suffix(processed, Len(tail)) = tail
                    /\ processed = ReplaceVars(Slice(result, 1, Len(result) - Len(ScopePieces[q])),
                                               variables, 1) \o tail

\* C25: loop expansion never changes the processor's outer variable mapping, and
\* every iteration has a context of its own: a field that only item i has is not
\* seen when the body is substituted for another item j (the name then gives the
\* outer variable, or nothing), and after the loop the outer mapping has the
\* bindings it had before: no index, index1, item or field of an item.
C25_OuterContextUntouched ==
    /\ [][variables' = variables]_vars
    /\ [](OthersFieldsUnseen /\ OuterAfterLoop)

\* the loop {{#a}}{{o}}{{/a}} over an item with a field "o" and an item without,
\* and then {{o}}: w for the first item, the outer u for the second and after the loop
C25_Witness ==
    /\ pc = "done"
    /\ variables = ScopeItems
    /\ templateContent = LoopOf(K("a"), Mark(K("o"))) \o Mark(K("o"))
    /\ trail[2] = <<"w", ",", "u">> \o Mark(K("o"))
    /\ processed = <<"w", ",", "u", "u">>

\* the pieces that are one scalar marker, with the name each holds, and the
\* pieces that are one loop over "a" without a loop inside, with their bodies
ScalarPieces == (2 :> K("v")) @@ BoundInLoops

PlainLoops == (10 :> Mark(K("o"))) @@ (11 :> Mark(Key_item) \o Mark(K("v")))

\* C26: the text of a variable is put in place of its marker as it is (escaped)
\* and is never read as template text: the markers that a value holds stand in
\* the resolved text as they are, whether the value was put in by the scalar pass
\* or in the body of a loop.
C26_ValuesNotReadAsTemplate ==
    pc = "done" =>
        /\ \A q \in DOMAIN ScalarPieces :
               templateContent = ScopePieces[q] =>
                   processed = OuterText(variables, ScalarPieces[q])
        /\ \A p \in DOMAIN PlainLoops :
               templateContent = ScopePieces[p] =>
                   processed = processLoop(variables, K("a"), PlainLoops[p])

\* ---------------------------------------------------------------------------
\* Properties of a loop inside a loop: {{#a}}{{#b}}{{w}}{{v}}{{/b}}{{/a}}
\* ---------------------------------------------------------------------------

NestedLoop == LoopOf(K("a"), LoopOf(K("b"), Mark(K("w")) \o Mark(K("v"))))

\* the items of a and, when b is a sequence of the root mapping, its length
ItemsOfA == variables[K("a")].q

RootLengthOfB ==
    IF K("b") \in DOMAIN variables /\ variables[K("b")].t = "seq"
    THEN Len(variables[K("b")].q) ELSE 0

\* {{w}}{{v}} substituted for the j-th item of a
InnerBodyFor(j) ==
    valueToString(ExpectedBinding(variables, ItemsOfA[j], j - 1, K("w")).v)
    \o valueToString(ExpectedBinding(variables, ItemsOfA[j], j - 1, K("v")).v)

\* n copies of text, with commas between them unless the text is blank
Copies(text, n) ==
    IF IsBlank(text) THEN Concat([i \in 1..n |-> text]) ELSE JoinComma([i \in 1..n |-> text])

\* C27: for a loop over b inside the body of a loop over a: the body substituted
\* for an item of a still holds the markers of the inner loop as they were
\* written, while the scalar markers of the inner body are already replaced from
\* that item's context; the inner loop is then expanded once for each item of a
\* by the scan of the whole text, with b looked up in the root mapping only, so
\* that a collection b which is only a field of the item gives the empty text.
C27_NestedLoopExpandedFromRoot ==
    (templateContent = NestedLoop /\ DOMAIN variables # {}) =>
        /\ Len(trail) >= 2 =>
               trail[2] = JoinComma([j \in 1..Len(ItemsOfA) |->
                                        LoopOf(K("b"), InnerBodyFor(j))])
        /\ pc = "done" =>
               processed = JoinComma([j \in 1..Len(ItemsOfA) |->
                                         Copies(InnerBodyFor(j), RootLengthOfB)])

\* two items of a, the first with a collection b of one item as a field, and a
\* root collection b of two items: each item of a gives two copies of its text
C27_Witness ==
    /\ pc = "done"
    /\ templateContent = NestedLoop
    /\ variables = ScopeItems
    /\ trail[2] = LoopOf(K("b"), <<"o">>) \o <<",">> \o LoopOf(K("b"), <<"y">>)
    /\ processed = <<"o", ",", "o", ",", "y", ",", "y">>

\* ---------------------------------------------------------------------------
\* Properties of the texts of a grid
\* ---------------------------------------------------------------------------

\* the children of grid e that are texts of one line
TextChildren(e) ==
    {i \in 1..Len(e.Children) :
        /\ IsText(e.Children[i])
        /\ e.Children[i].Content.t = "string"
        /\ \A k \in 1..Len(e.Children[i].Content.s) : e.Children[i].Content.s[k] # "\n"}

\* the cells of the step that hold the text of child i
DrawnFor(e, i) == {n \in 1..Len(NewCells) : NewCells[n].txt = e.Children[i].Content.s}

ColumnWidth(e) == (PageWidth - MarginLeft - MarginRight) \div e.GridColumns

\* the session when the row of child i begins, for a grid rendered from q
RowStart(q, e, i) ==
    IF i <= e.GridColumns THEN q
    ELSE renderGrid(q, FirstBatches(e, (i - 1) \div e.GridColumns))

\* the session when the children of i's row have been measured up to i
MeasuredTo(q, e, i) ==
    gridMeasure(RowStart(q, e, i),
                SubSeq(e.Children, ((i - 1) \div e.GridColumns) * e.GridColumns + 1, i),
                RowStart(q, e, i).y, ColumnWidth(e)).pdf

\* C28: a grid makes exactly two draw calls for each of its text children, one
\* when it measures the row and one when it commits it, both with the cursor at
\* X = left margin + col * (available width / gridColumns) and Y = the row's
\* start, and with width = column width - 2; between the two the cursor is put
\* back where it was before the child was rendered to be measured.
C28_GridTextDrawnTwice ==
    [][(RenderNext /\ IsGrid(Current)) =>
          \A i \in TextChildren(Current) :
              \E q \in {Down(pdf, TopOf(Current.Style))} :
                  /\ Cardinality(DrawnFor(Current, i)) = 2
                  /\ \A n \in DrawnFor(Current, i) :
                        /\ NewCells[n].x = MarginLeft + ((i - 1) % Current.GridColumns)
                                                           * ColumnWidth(Current)
                        /\ NewCells[n].y = RowStart(q, Current, i).y
                        /\ NewCells[n].w = ColumnWidth(Current) - GridGutter
                  /\ MeasuredTo(q, Current, i).x
                         = MarginLeft + ((i - 1) % Current.GridColumns) * ColumnWidth(Current)
                  /\ MeasuredTo(q, Current, i).y = RowStart(q, Current, i).y]_vars

\* the grid of two columns with the texts e and f in its first row: each is
\* drawn twice, at the same place, e at the left margin and f one column further
C28_Witness ==
    /\ el = 1
    /\ template.Elements = <<Parts[12]>>
    /\ Len(pdf.cells) = 4
    /\ pdf.cells[3] = pdf.cells[1]
    /\ pdf.cells[4] = pdf.cells[2]
    /\ pdf.cells[1].x = MarginLeft
    /\ pdf.cells[2].txt = <<"f">>
    /\ pdf.cells[2].x = MarginLeft + ColumnWidth(Parts[12])
    /\ pdf.cells[2].w = ColumnWidth(Parts[12]) - GridGutter
    /\ pdf.cells[2].y = MarginTop

\* ---------------------------------------------------------------------------
\* Properties of the cursor
\* ---------------------------------------------------------------------------

\* C29: on one page, for every sequence of top-level elements of any styles, the
\* cursor's Y after an element is rendered is at least the Y before it: margins,
\* heights and widths that are not positive give way to the defaults, so that
\* neither the top margin, nor the rendering of the element, nor the bottom
\* margin moves the cursor up.
C29_CursorNeverMovesUp ==
    [][RenderNext =>
          /\ pdf.y <= applyMargin(pdf, Current.Style).y
          /\ applyMargin(pdf, Current.Style).y
                 <= renderByType(applyMargin(pdf, Current.Style), Current).y
          /\ renderByType(applyMargin(pdf, Current.Style), Current).y <= pdf'.y]_vars

\* a space with a height of -4 and margins of -1, then a text with a height of
\* -2 and margins of -3 and -1: the cursor is lower by the default heights of both
C29_Witness ==
    /\ el = 2
    /\ template.Elements = <<Parts[22], Parts[21]>>
    /\ pdf.cells[1].y = MarginTop + SpaceHeight
    /\ pdf.y = MarginTop + SpaceHeight + TextHeight

\* ---------------------------------------------------------------------------
\* Properties of images
\* ---------------------------------------------------------------------------

\* C30: within one build, two image elements whose decoded bytes differ are
\* registered with the drawing backend under different names, so that each is
\* drawn from its own bytes.
C30_ImagesNamedApart ==
    \A i \in 1..Len(pdf.images) :
        \A j \in 1..Len(pdf.images) :
            pdf.images[i].data # pdf.images[j].data =>
                pdf.images[i].name # pdf.images[j].name

====
